---------------------------- MODULE Spec2Model ----------------------------
(***************************************************************************)
(* Verification model of NX-Migrator-Pro: the raw-copy pipeline of the     *)
(* migration engine, the layout planner, the disk selection of the main    *)
(* window, the migration run and the cleanup run.                          *)
(*                                                                         *)
(* The module holds several specifications over one set of variables.      *)
(* Each specification drives its own group of variables and leaves the     *)
(* other groups at their idle values.                                      *)
(***************************************************************************)
EXTENDS Integers, Sequences, FiniteSets, TLC

(***************************************************************************)
(* Bounds of the model (not program constants).                            *)
(***************************************************************************)
MaxSectors == 5
MaxChunk == 3
MaxPartMB == 1
MaxAndroid == 2
MaxTargetUnits == 3
NumDisks == 2

(***************************************************************************)
(* Program constants.                                                      *)
(***************************************************************************)
SECTOR_SIZE == 512
ALIGN_SECTORS == 32768

None == "None"

\* the end-of-stream item put on the queue (Python's None) and an empty local
EndSignal == [kind |-> "end"]
NoItem == [kind |-> "none"]

Min(a, b) == IF a < b THEN a ELSE b

VARIABLES
    \* ---- raw copy of one partition (migration_engine.py 210-452) ----
    NUM_BUFFERS,      \* module constant chosen from free RAM at import
    chunk_sectors,    \* CHUNK_SIZE // SECTOR_SIZE
    total_sectors,    \* source_part.size_sectors
    src_start,        \* source_part.start_sector
    dst_start,        \* target_part.start_sector
    target,           \* contents of the target device, sector -> value
    write_queue,      \* queue.Queue(maxsize=NUM_BUFFERS)
    sectors_read,     \* reader_thread local
    sectors_copied,   \* sectors_copied[0]
    error_holder,     \* error_holder[0]
    cancelled,        \* MigrationEngine.cancelled
    rpc,              \* position of reader_thread
    wpc,              \* position of writer_thread
    cpc,              \* position of the coordinating thread
    rlocal,           \* reader's (target_sector, data, sectors_to_read)
    wlocal,           \* writer's item taken from the queue
    result,           \* how _copy_partition_data returned
    write_log         \* target sectors written, in order of the writes

copyVars == <<NUM_BUFFERS, chunk_sectors, total_sectors, src_start, dst_start,
              target, write_queue, sectors_read, sectors_copied, error_holder,
              cancelled, rpc, wpc, cpc, rlocal, wlocal, result, write_log>>

VARIABLES
    \* ---- layout planning (partition_scanner.py, main_window.py) ----
    source_layout,     \* DiskLayout returned by scan_disk
    target_layout,     \* DiskLayout returned by calculate_target_layout
    options,           \* migration_options
    target_size_bytes, \* size handed to calculate_target_layout
    ppc                \* position of the planning call

planVars == <<source_layout, target_layout, options, target_size_bytes, ppc>>

VARIABLES
    \* ---- disk selection (disk_selector.py, main_window.py) ----
    ds_source,         \* DiskSelector.source_disk
    ds_target,         \* DiskSelector.target_disk
    mw_source,         \* MainWindow.source_disk
    mw_target,         \* MainWindow.target_disk
    migrate_enabled,   \* state of migrate_button
    ui_enabled         \* _set_ui_enabled

guiVars == <<ds_source, ds_target, mw_source, mw_target, migrate_enabled,
             ui_enabled>>

VARIABLES
    \* ---- one run of MigrationEngine / CleanupEngine ----
    eng_source,        \* MigrationEngine.source_disk / CleanupEngine.disk
    eng_target,        \* MigrationEngine.target_disk
    eng_plan,          \* the engine's source_layout, target_layout, options
    stage,             \* position of run()
    stage_log,         \* stages entered, in order, each with its outcome
    op_log,            \* device operations issued, in order
    copy_idx           \* index of the loop in _copy_partitions

runVars == <<eng_source, eng_target, eng_plan, stage, stage_log, op_log,
             copy_idx>>

VARIABLES
    \* ---- cleanup (cleanup_engine.py) ----
    cleanup_options,   \* CleanupEngine.options
    disk_writes,       \* extents written to the disk, in order
    temp_backup_dir    \* state of the temporary FAT32 backup

cleanVars == <<cleanup_options, disk_writes, temp_backup_dir>>

VARIABLES
    \* ---- partition table on a device (partition_writer.py, scanner) ----
    device,            \* MBR slots and GPT sectors of the device
    rt_layout,         \* DiskLayout handed to write_partition_table
    rt_scanned,        \* DiskLayout returned by scan_disk afterwards
    rtpc               \* "idle", "start", "written", "scanned", "error"

tableVars == <<device, rt_layout, rt_scanned, rtpc>>

VARIABLES
    \* ---- MigrationEngine.cancel ----
    eng_cancelled,     \* MigrationEngine.cancelled
    cancel_call        \* where the run stood when cancel() was called

cancelVars == <<eng_cancelled, cancel_call>>

VARIABLES
    \* ---- one call of DiskManager.write_sectors ----
    ws_skip_prepare,   \* the skip_prepare argument
    ws_data_len,       \* len(data)
    ws_attempts,       \* the attempts made so far, with their outcome
    ws_pc              \* "idle", "loop", "returned", "raised"

gwVars == <<ws_skip_prepare, ws_data_len, ws_attempts, ws_pc>>

VARIABLES
    \* ---- emuMMC configuration written after a run ----
    emu_inner,         \* what the source emuMMC partition holds inside
    detected_offset,   \* result of _write_emummc_efi_signature
    emummc_files,      \* emuMMC/RAW1/raw_based and emuMMC/emummc.ini
    emupc              \* "idle", "start", or how _update_emummc_config ended

emuVars == <<emu_inner, detected_offset, emummc_files, emupc>>

VARIABLES
    \* ---- progress reports of a migration run ----
    pg_parts,          \* categories of source_layout.partitions, in order
    pg_idx,            \* idx of the loop in _copy_partitions, from 1
    pg_pc,             \* "idle", "start", "copy", "fat32", "post", "done"
    pg_sub,            \* reports made so far within the current part
    pg_percent         \* percent of the last call of _report_progress

progVars == <<pg_parts, pg_idx, pg_pc, pg_sub, pg_percent>>

oldVars == <<copyVars, planVars, guiVars, runVars, cleanVars>>

\* everything but the partition-table variables
notTableVars == <<oldVars, cancelVars, gwVars, emuVars, progVars>>

\* everything but the write_sectors variables
notGwVars == <<oldVars, tableVars, cancelVars, emuVars, progVars>>

\* the variables of the parts added after the engines
moreVars == <<tableVars, cancelVars, gwVars, emuVars, progVars>>

vars == <<copyVars, planVars, guiVars, runVars, cleanVars, moreVars>>

\* everything but the raw-copy variables
notCopyVars == <<planVars, guiVars, runVars, cleanVars, moreVars>>

(***************************************************************************)
(* Values of the variable groups while their part of the program is not    *)
(* running.                                                                *)
(***************************************************************************)
\* Python's None for a layout that has not been computed yet
NoLayout == [kind |-> "none"]

\* Python's None for a disk that has not been selected
NoDisk == [kind |-> "none"]

\* no engine has been constructed
NoPlan == [kind |-> "none"]

\* MainWindow.migration_options as constructed
DefaultOptions ==
    [migrate_fat32 |-> TRUE, migrate_linux |-> TRUE, migrate_android |-> TRUE,
     migrate_emummc |-> TRUE, expand_fat32 |-> TRUE]

\* MainWindow.cleanup_options as constructed
DefaultCleanupOptions ==
    [remove_linux |-> FALSE, remove_android |-> FALSE,
     remove_emummc |-> FALSE, expand_fat32 |-> TRUE]

PlanIdle ==
    /\ source_layout = NoLayout
    /\ target_layout = NoLayout
    /\ options = DefaultOptions
    /\ target_size_bytes = 0
    /\ ppc = "idle"

GuiIdle ==
    /\ ds_source = NoDisk
    /\ ds_target = NoDisk
    /\ mw_source = NoDisk
    /\ mw_target = NoDisk
    /\ migrate_enabled = FALSE
    /\ ui_enabled = TRUE

RunIdle ==
    /\ eng_source = NoDisk
    /\ eng_target = NoDisk
    /\ eng_plan = NoPlan
    /\ stage = "idle"
    /\ stage_log = <<>>
    /\ op_log = <<>>
    /\ copy_idx = 0

CleanIdle ==
    /\ cleanup_options = DefaultCleanupOptions
    /\ disk_writes = <<>>
    /\ temp_backup_dir = "absent"

NoDevice == [kind |-> "NoDevice"]

TableIdle ==
    /\ device = NoDevice
    /\ rt_layout = NoLayout
    /\ rt_scanned = NoLayout
    /\ rtpc = "idle"

NoCall == [kind |-> "NoCall"]

CancelIdle ==
    /\ eng_cancelled = FALSE
    /\ cancel_call = NoCall

GwIdle ==
    /\ ws_skip_prepare = FALSE
    /\ ws_data_len = 0
    /\ ws_attempts = <<>>
    /\ ws_pc = "idle"

NoFiles == [kind |-> "NoFiles"]

EmuIdle ==
    /\ emu_inner = [kind |-> "none"]
    /\ detected_offset = 0
    /\ emummc_files = NoFiles
    /\ emupc = "idle"

NoReport == [kind |-> "NoReport"]

ProgIdle ==
    /\ pg_parts = <<>>
    /\ pg_idx = 0
    /\ pg_pc = "idle"
    /\ pg_sub = 0
    /\ pg_percent = NoReport

MoreIdle == TableIdle /\ CancelIdle /\ GwIdle /\ EmuIdle /\ ProgIdle

CopyIdle ==
    /\ NUM_BUFFERS = 1
    /\ chunk_sectors = 1
    /\ total_sectors = 0
    /\ src_start = 0
    /\ dst_start = 0
    /\ target = <<>>
    /\ write_queue = <<>>
    /\ sectors_read = 0
    /\ sectors_copied = 0
    /\ error_holder = None
    /\ cancelled = FALSE
    /\ rpc = "idle"
    /\ wpc = "idle"
    /\ cpc = "idle"
    /\ rlocal = NoItem
    /\ wlocal = NoItem
    /\ result = "idle"
    /\ write_log = <<>>

OldIdle == CopyIdle /\ PlanIdle /\ GuiIdle /\ RunIdle /\ CleanIdle

(***************************************************************************)
(* The source device is never written by the copy: its contents are a      *)
(* fixed function of the sector number, distinct in every sector.          *)
(***************************************************************************)
SourceData(sector) == 100 + sector

\* DiskManager.read_sectors: count sectors starting at start_sector
read_sectors(start_sector, count) ==
    [i \in 1..count |-> SourceData(start_sector + i - 1)]

\* DiskManager.write_sectors (successful outcome): data lands at start_sector
write_sectors(disk, start_sector, data) ==
    [s \in DOMAIN disk |->
        IF s >= start_sector /\ s < start_sector + Len(data)
        THEN data[s - start_sector + 1] ELSE disk[s]]

\* sectors_to_copy = min(chunk_sectors, remaining)
SectorsToCopy(done) == Min(chunk_sectors, total_sectors - done)

SourceSector(done) == src_start + done

TargetSectorNoOffset(done) == dst_start
TargetSector(done) == dst_start + done

\* a queue that hands out the newest item first
queue_put_front(queue, item) == <<item>> \o queue

\* queue.Queue.put: the queue is first in, first out
queue_put(queue, item) == Append(queue, item)

DiskSectors == 0..(2 * MaxSectors + MaxChunk + 2)

CopyInit ==
    /\ NUM_BUFFERS \in 1..3
    /\ chunk_sectors \in 2..MaxChunk
    /\ total_sectors \in 1..MaxSectors
    /\ src_start = 1
    /\ dst_start = 2
    /\ target = [s \in DiskSectors |-> 0]
    /\ write_queue = <<>>
    /\ sectors_read = 0
    /\ sectors_copied = 0
    /\ error_holder = None
    /\ cancelled = FALSE
    /\ rpc = "idle"
    /\ wpc = "idle"
    /\ cpc = "start"
    /\ rlocal = NoItem
    /\ wlocal = NoItem
    /\ result = "running"
    /\ write_log = <<>>
    /\ PlanIdle /\ GuiIdle /\ RunIdle /\ CleanIdle /\ MoreIdle

(***************************************************************************)
(* _copy_partition_data: the threaded copy when NUM_BUFFERS > 1, the       *)
(* single-threaded copy otherwise.                                         *)
(***************************************************************************)
CopyDispatch ==
    /\ cpc = "start"
    /\ IF NUM_BUFFERS > 1
       THEN /\ rpc' = "loop"
            /\ wpc' = "loop"
            /\ cpc' = "join_reader"
       ELSE /\ cpc' = "single_loop"
            /\ UNCHANGED <<rpc, wpc>>
    /\ UNCHANGED notCopyVars
    /\ UNCHANGED <<NUM_BUFFERS, chunk_sectors, total_sectors, src_start,
                   dst_start, target, write_queue, sectors_read,
                   sectors_copied, error_holder, cancelled, rlocal, wlocal,
                   result, write_log>>

(***************************************************************************)
(* reader_thread                                                           *)
(***************************************************************************)
ReaderLoop ==
    /\ rpc = "loop"
    /\ IF sectors_read < total_sectors
       THEN IF cancelled THEN rpc' = "done" ELSE rpc' = "read"
       ELSE rpc' = "put_end"
    /\ UNCHANGED notCopyVars
    /\ UNCHANGED <<NUM_BUFFERS, chunk_sectors, total_sectors, src_start,
                   dst_start, target, write_queue, sectors_read,
                   sectors_copied, error_holder, cancelled, wpc, cpc, rlocal,
                   wlocal, result, write_log>>

ReaderReadOk ==
    /\ rpc = "read"
    /\ rlocal' = [kind |-> "chunk",
                  target_sector |-> TargetSector(sectors_read),
                  data |-> read_sectors(SourceSector(sectors_read),
                                        SectorsToCopy(sectors_read)),
                  sectors |-> SectorsToCopy(sectors_read)]
    /\ rpc' = "put"
    /\ UNCHANGED notCopyVars
    /\ UNCHANGED <<NUM_BUFFERS, chunk_sectors, total_sectors, src_start,
                   dst_start, target, write_queue, sectors_read,
                   sectors_copied, error_holder, cancelled, wpc, cpc, wlocal,
                   result, write_log>>

ReaderReadFail ==
    /\ rpc = "read"
    /\ rpc' = "except"
    /\ UNCHANGED notCopyVars
    /\ UNCHANGED <<NUM_BUFFERS, chunk_sectors, total_sectors, src_start,
                   dst_start, target, write_queue, sectors_read,
                   sectors_copied, error_holder, cancelled, wpc, cpc, rlocal,
                   wlocal, result, write_log>>

\* write_queue.put(item) blocks while the queue holds NUM_BUFFERS items
ReaderPut ==
    /\ rpc = "put"
    /\ Len(write_queue) < NUM_BUFFERS
    /\ write_queue' = queue_put(write_queue, rlocal)
    /\ sectors_read' = sectors_read + rlocal.sectors
    /\ rlocal' = NoItem
    /\ rpc' = "loop"
    /\ UNCHANGED notCopyVars
    /\ UNCHANGED <<NUM_BUFFERS, chunk_sectors, total_sectors, src_start,
                   dst_start, target, sectors_copied, error_holder, cancelled,
                   wpc, cpc, wlocal, result, write_log>>

ReaderExcept ==
    /\ rpc = "except"
    /\ error_holder' = "ReadError"
    /\ rpc' = "put_end"
    /\ UNCHANGED notCopyVars
    /\ UNCHANGED <<NUM_BUFFERS, chunk_sectors, total_sectors, src_start,
                   dst_start, target, write_queue, sectors_read,
                   sectors_copied, cancelled, wpc, cpc, rlocal, wlocal,
                   result, write_log>>

\* write_queue.put(None), after the loop or in the except clause
ReaderPutEnd ==
    /\ rpc = "put_end"
    /\ Len(write_queue) < NUM_BUFFERS
    /\ write_queue' = queue_put(write_queue, EndSignal)
    /\ rpc' = "done"
    /\ UNCHANGED notCopyVars
    /\ UNCHANGED <<NUM_BUFFERS, chunk_sectors, total_sectors, src_start,
                   dst_start, target, sectors_read, sectors_copied,
                   error_holder, cancelled, wpc, cpc, rlocal, wlocal, result,
                   write_log>>

Reader ==
    \/ ReaderLoop \/ ReaderReadOk \/ ReaderReadFail \/ ReaderPut
    \/ ReaderExcept \/ ReaderPutEnd

(***************************************************************************)
(* writer_thread                                                           *)
(***************************************************************************)
WriterLoop ==
    /\ wpc = "loop"
    /\ IF cancelled THEN wpc' = "done" ELSE wpc' = "get"
    /\ UNCHANGED notCopyVars
    /\ UNCHANGED <<NUM_BUFFERS, chunk_sectors, total_sectors, src_start,
                   dst_start, target, write_queue, sectors_read,
                   sectors_copied, error_holder, cancelled, rpc, cpc, rlocal,
                   wlocal, result, write_log>>

\* write_queue.get() blocks while the queue is empty
WriterGet ==
    /\ wpc = "get"
    /\ Len(write_queue) > 0
    /\ write_queue' = Tail(write_queue)
    /\ IF Head(write_queue) = EndSignal
       THEN /\ wpc' = "done"
            /\ UNCHANGED wlocal
       ELSE /\ wpc' = "write"
            /\ wlocal' = Head(write_queue)
    /\ UNCHANGED notCopyVars
    /\ UNCHANGED <<NUM_BUFFERS, chunk_sectors, total_sectors, src_start,
                   dst_start, target, sectors_read, sectors_copied,
                   error_holder, cancelled, rpc, cpc, rlocal, result,
                   write_log>>

WriterWriteOk ==
    /\ wpc = "write"
    /\ target' = write_sectors(target, wlocal.target_sector, wlocal.data)
    /\ write_log' = Append(write_log, wlocal.target_sector)
    /\ sectors_copied' = sectors_copied + wlocal.sectors
    /\ wlocal' = NoItem
    /\ wpc' = "loop"
    /\ UNCHANGED notCopyVars
    /\ UNCHANGED <<NUM_BUFFERS, chunk_sectors, total_sectors, src_start,
                   dst_start, write_queue, sectors_read, error_holder,
                   cancelled, rpc, cpc, rlocal, result>>

WriterWriteFail ==
    /\ wpc = "write"
    /\ wpc' = "except"
    /\ UNCHANGED notCopyVars
    /\ UNCHANGED <<NUM_BUFFERS, chunk_sectors, total_sectors, src_start,
                   dst_start, target, write_queue, sectors_read,
                   sectors_copied, error_holder, cancelled, rpc, cpc, rlocal,
                   wlocal, result, write_log>>

WriterExcept ==
    /\ wpc = "except"
    /\ error_holder' = "WriteError"
    /\ wpc' = "done"
    /\ UNCHANGED notCopyVars
    /\ UNCHANGED <<NUM_BUFFERS, chunk_sectors, total_sectors, src_start,
                   dst_start, target, write_queue, sectors_read,
                   sectors_copied, cancelled, rpc, cpc, rlocal, wlocal,
                   result, write_log>>

Writer ==
    \/ WriterLoop \/ WriterGet \/ WriterWriteOk \/ WriterWriteFail
    \/ WriterExcept

(***************************************************************************)
(* The coordinating thread of _copy_partition_data_threaded: join both     *)
(* threads, then raise the latched error, then the cancellation.           *)
(***************************************************************************)
JoinReader ==
    /\ cpc = "join_reader"
    /\ rpc = "done"
    /\ cpc' = "join_writer"
    /\ UNCHANGED notCopyVars
    /\ UNCHANGED <<NUM_BUFFERS, chunk_sectors, total_sectors, src_start,
                   dst_start, target, write_queue, sectors_read,
                   sectors_copied, error_holder, cancelled, rpc, wpc, rlocal,
                   wlocal, result, write_log>>

JoinWriter ==
    /\ cpc = "join_writer"
    /\ wpc = "done"
    /\ cpc' = "check_error"
    /\ UNCHANGED notCopyVars
    /\ UNCHANGED <<NUM_BUFFERS, chunk_sectors, total_sectors, src_start,
                   dst_start, target, write_queue, sectors_read,
                   sectors_copied, error_holder, cancelled, rpc, wpc, rlocal,
                   wlocal, result, write_log>>

CheckError ==
    /\ cpc = "check_error"
    /\ IF error_holder # None
       THEN /\ result' = error_holder
            /\ cpc' = "done"
       ELSE /\ cpc' = "check_cancel"
            /\ UNCHANGED result
    /\ UNCHANGED notCopyVars
    /\ UNCHANGED <<NUM_BUFFERS, chunk_sectors, total_sectors, src_start,
                   dst_start, target, write_queue, sectors_read,
                   sectors_copied, error_holder, cancelled, rpc, wpc, rlocal,
                   wlocal, write_log>>

CheckCancel ==
    /\ cpc = "check_cancel"
    /\ result' = IF cancelled THEN "Cancelled" ELSE "Ok"
    /\ cpc' = "done"
    /\ UNCHANGED notCopyVars
    /\ UNCHANGED <<NUM_BUFFERS, chunk_sectors, total_sectors, src_start,
                   dst_start, target, write_queue, sectors_read,
                   sectors_copied, error_holder, cancelled, rpc, wpc, rlocal,
                   wlocal, write_log>>

(***************************************************************************)
(* _copy_partition_data_single                                             *)
(***************************************************************************)
SingleLoop ==
    /\ cpc = "single_loop"
    /\ IF sectors_copied < total_sectors
       THEN IF cancelled
            THEN /\ result' = "Cancelled"
                 /\ cpc' = "done"
            ELSE /\ cpc' = "single_read"
                 /\ UNCHANGED result
       ELSE /\ result' = "Ok"
            /\ cpc' = "done"
    /\ UNCHANGED notCopyVars
    /\ UNCHANGED <<NUM_BUFFERS, chunk_sectors, total_sectors, src_start,
                   dst_start, target, write_queue, sectors_read,
                   sectors_copied, error_holder, cancelled, rpc, wpc, rlocal,
                   wlocal, write_log>>

SingleReadOk ==
    /\ cpc = "single_read"
    /\ rlocal' = [kind |-> "chunk",
                  target_sector |-> TargetSector(sectors_copied),
                  data |-> read_sectors(SourceSector(sectors_copied),
                                        SectorsToCopy(sectors_copied)),
                  sectors |-> SectorsToCopy(sectors_copied)]
    /\ cpc' = "single_write"
    /\ UNCHANGED notCopyVars
    /\ UNCHANGED <<NUM_BUFFERS, chunk_sectors, total_sectors, src_start,
                   dst_start, target, write_queue, sectors_read,
                   sectors_copied, error_holder, cancelled, rpc, wpc, wlocal,
                   result, write_log>>

SingleReadFail ==
    /\ cpc = "single_read"
    /\ result' = "ReadError"
    /\ cpc' = "done"
    /\ UNCHANGED notCopyVars
    /\ UNCHANGED <<NUM_BUFFERS, chunk_sectors, total_sectors, src_start,
                   dst_start, target, write_queue, sectors_read,
                   sectors_copied, error_holder, cancelled, rpc, wpc, rlocal,
                   wlocal, write_log>>

SingleWriteOk ==
    /\ cpc = "single_write"
    /\ target' = write_sectors(target, rlocal.target_sector, rlocal.data)
    /\ write_log' = Append(write_log, rlocal.target_sector)
    /\ sectors_copied' = sectors_copied + rlocal.sectors
    /\ rlocal' = NoItem
    /\ cpc' = "single_loop"
    /\ UNCHANGED notCopyVars
    /\ UNCHANGED <<NUM_BUFFERS, chunk_sectors, total_sectors, src_start,
                   dst_start, write_queue, sectors_read, error_holder,
                   cancelled, rpc, wpc, wlocal, result>>

SingleWriteFail ==
    /\ cpc = "single_write"
    /\ result' = "WriteError"
    /\ cpc' = "done"
    /\ UNCHANGED notCopyVars
    /\ UNCHANGED <<NUM_BUFFERS, chunk_sectors, total_sectors, src_start,
                   dst_start, target, write_queue, sectors_read,
                   sectors_copied, error_holder, cancelled, rpc, wpc, rlocal,
                   wlocal, write_log>>

Coordinator ==
    \/ CopyDispatch \/ JoinReader \/ JoinWriter \/ CheckError \/ CheckCancel
    \/ SingleLoop \/ SingleReadOk \/ SingleReadFail \/ SingleWriteOk
    \/ SingleWriteFail

(***************************************************************************)
(* MigrationEngine.cancel, called from another thread while the copy runs. *)
(***************************************************************************)
cancel ==
    /\ cpc # "done"
    /\ ~cancelled
    /\ cancelled' = TRUE
    /\ UNCHANGED notCopyVars
    /\ UNCHANGED <<NUM_BUFFERS, chunk_sectors, total_sectors, src_start,
                   dst_start, target, write_queue, sectors_read,
                   sectors_copied, error_holder, rpc, wpc, cpc, rlocal,
                   wlocal, result, write_log>>

CopyNext ==
    \/ CopyDispatch
    \/ ReaderLoop \/ ReaderReadOk \/ ReaderReadFail \/ ReaderPut
    \/ ReaderExcept \/ ReaderPutEnd
    \/ WriterLoop \/ WriterGet \/ WriterWriteOk \/ WriterWriteFail
    \/ WriterExcept
    \/ JoinReader \/ JoinWriter \/ CheckError \/ CheckCancel
    \/ SingleLoop \/ SingleReadOk \/ SingleReadFail \/ SingleWriteOk
    \/ SingleWriteFail
    \/ cancel

CopySpec == CopyInit /\ [][CopyNext]_vars

(***************************************************************************)
(* Claims about the raw copy.                                              *)
(***************************************************************************)
ThreadedCopy == NUM_BUFFERS > 1

PipelineCanStep == ENABLED (Reader \/ Writer \/ Coordinator)

(* C1: a cancel raised while the threaded copy runs ends the copy: once    *)
(* cancelled is set (and no I/O error is latched) the reader and the       *)
(* writer terminate, the joins return and the copy raises the              *)
(* cancellation.  Stated so that a finite run refutes it: in every state   *)
(* after the cancel the copy has raised the cancellation or one of its     *)
(* three threads can still take a step.                                    *)
C1_CancelEndsCopy ==
    (ThreadedCopy /\ cancelled /\ error_holder = None)
        => \/ (rpc = "done" /\ wpc = "done" /\ cpc = "done"
               /\ result = "Cancelled")
           \/ PipelineCanStep

(* C2: when a raw copy (single-threaded or threaded) returns without error *)
(* and without cancellation, every sector of the target range              *)
(* dst.start .. dst.start+S-1 holds the source sector at src.start plus    *)
(* the same offset, also when S is not a multiple of the chunk size.       *)
C2_RawCopyExact ==
    (cpc = "done" /\ result = "Ok")
        => \A i \in 0..(total_sectors - 1) :
               target[dst_start + i] = SourceData(src_start + i)

C2_Witness ==
    /\ cpc = "done"
    /\ result = "Ok"
    /\ ThreadedCopy
    /\ total_sectors > chunk_sectors
    /\ total_sectors % chunk_sectors # 0
    /\ Len(write_log) > 1

(* C3: when a read or a write of the threaded copy fails, the error is     *)
(* latched, both threads terminate, the coordinator joins them and raises  *)
(* the error, however many chunks remain.  Stated so that a finite run     *)
(* refutes it: in every state with a latched error (and no cancel) the     *)
(* copy has raised the error or one of its threads can still take a step.  *)
C3_ErrorEndsCopy ==
    (ThreadedCopy /\ error_holder # None /\ ~cancelled)
        => \/ (rpc = "done" /\ wpc = "done" /\ cpc = "done"
               /\ result \in {"ReadError", "WriteError"})
           \/ PipelineCanStep

(***************************************************************************)
(* Order of the chunks in the threaded copy.                               *)
(***************************************************************************)
\* the chunks on their way from the reader to the writer, oldest first:
\* the one the writer holds, those in the queue, the one the reader holds
InPipeline ==
    (IF wlocal = NoItem THEN <<>> ELSE <<wlocal>>)
        \o SelectSeq(write_queue, LAMBDA item : item # EndSignal)
        \o (IF rlocal = NoItem THEN <<>> ELSE <<rlocal>>)

\* the source offset of the k-th chunk
ChunkOffset(k) == (k - 1) * chunk_sectors

\* the threads that are inside a write to the target
WritesInFlight ==
    {t \in {"writer", "coordinator"} :
        \/ t = "writer" /\ wpc = "write"
        \/ t = "coordinator" /\ cpc = "single_write"}

\* C18: in the threaded raw copy the reader reads chunks in strictly
\* increasing source offset and the writer writes them to the target in
\* the same order, each chunk at dst.start plus the offset it was read
\* from, each chunk at most once, and at most one write to the target is
\* in flight at any time
C18_ChunkOrder ==
    ThreadedCopy =>
        /\ \A k \in DOMAIN write_log :
              write_log[k] = dst_start + ChunkOffset(k)
        /\ \A i \in DOMAIN InPipeline :
              LET k == Len(write_log) + i
                  n == Min(chunk_sectors, total_sectors - ChunkOffset(k))
              IN  /\ ChunkOffset(k) < total_sectors
                  /\ InPipeline[i].target_sector = dst_start + ChunkOffset(k)
                  /\ InPipeline[i].data
                        = read_sectors(src_start + ChunkOffset(k), n)
        /\ \A i, j \in DOMAIN write_log : i < j => write_log[i] < write_log[j]
        /\ Cardinality(WritesInFlight) <= 1

\* one chunk is written, the writer is writing the second and the reader
\* has read the third
C18_Witness ==
    /\ ThreadedCopy
    /\ Len(write_log) >= 1
    /\ Len(InPipeline) >= 2
    /\ wpc = "write"

\* C19: when both the reader and the writer of the threaded raw copy fail
\* during one copy, the error raised after the joins is the one that was
\* latched first: once error_holder holds an error, no step replaces it
C19_FirstErrorLatched ==
    [][(ThreadedCopy /\ error_holder # None)
           => error_holder' = error_holder]_vars

\* what the code does instead: each except clause stores its error, so
\* the error raised after the joins is the last one stored
C19_LastErrorRaised ==
    [][(ThreadedCopy /\ CheckError /\ error_holder # None)
           => result' = error_holder]_vars

(***************************************************************************)
(* Partition and DiskLayout (partition_models.py).  type_name is display   *)
(* text and is left out.                                                   *)
(***************************************************************************)
Partition(name, type_id, start_sector, size_sectors, size_mb, category, in_mbr, in_gpt) ==
    [name |-> name, type_id |-> type_id, start_sector |-> start_sector,
     size_sectors |-> size_sectors, size_mb |-> size_mb,
     category |-> category, in_mbr |-> in_mbr, in_gpt |-> in_gpt]

\* DiskLayout.__init__
DiskLayout ==
    [partitions |-> <<>>, total_sectors |-> 0, has_gpt |-> FALSE,
     has_linux |-> FALSE, has_android |-> FALSE, has_emummc |-> FALSE,
     android_dynamic |-> FALSE, emummc_double |-> FALSE,
     fat32_size_mb |-> 0, linux_size_mb |-> 0, android_size_mb |-> 0,
     emummc_size_mb |-> 0]

\* DiskLayout.add_partition
add_partition(layout, partition) ==
    LET added == [layout EXCEPT !.partitions = Append(@, partition)]
    IN  CASE partition.category = "Linux" ->
               [added EXCEPT !.has_linux = TRUE,
                             !.linux_size_mb = @ + partition.size_mb]
          [] partition.category = "Android" ->
               [added EXCEPT !.has_android = TRUE,
                             !.android_size_mb = @ + partition.size_mb]
          [] partition.category = "emuMMC" ->
               [added EXCEPT !.has_emummc = TRUE,
                             !.emummc_size_mb = @ + partition.size_mb]
          [] partition.category = "FAT32" ->
               [added EXCEPT !.fat32_size_mb = @ + partition.size_mb]
          [] OTHER -> added

get_android_partitions(layout) ==
    SelectSeq(layout.partitions, LAMBDA p : p.category = "Android")

get_emummc_partitions(layout) ==
    SelectSeq(layout.partitions, LAMBDA p : p.category = "emuMMC")

\* size_mb = (size_sectors * SECTOR_SIZE) // (1024 * 1024)
SizeMB(size_sectors) == (size_sectors * SECTOR_SIZE) \div (1024 * 1024)

\* if current_lba % ALIGN_SECTORS != 0: round up to the next multiple
AlignUp(current_lba) ==
    IF current_lba % ALIGN_SECTORS # 0
    THEN ((current_lba + ALIGN_SECTORS - 1) \div ALIGN_SECTORS) * ALIGN_SECTORS
    ELSE current_lba

(***************************************************************************)
(* PartitionScanner.calculate_target_layout                                *)
(***************************************************************************)
KeepLinux(source, opts) == source.has_linux /\ opts.migrate_linux
KeepAndroid(source, opts) == source.has_android /\ opts.migrate_android
KeepEmummc(source, opts) == source.has_emummc /\ opts.migrate_emummc

\* total_reserved_mb: the sizes of the partitions that are migrated
TotalReservedMB(source, opts) ==
    (IF KeepLinux(source, opts) THEN source.linux_size_mb ELSE 0)
    + (IF KeepAndroid(source, opts) THEN source.android_size_mb ELSE 0)
    + (IF KeepEmummc(source, opts) THEN source.emummc_size_mb ELSE 0)

\* end_reserve_mb = 9
EndReserveMB == 9

\* fat32_size_mb: the free space when expanding, the source size otherwise
Fat32SizeMB(source, total_sectors_, opts) ==
    IF opts.expand_fat32
    THEN LET total_disk_mb == (total_sectors_ * SECTOR_SIZE) \div (1024 * 1024)
             start_alignment_mb == ALIGN_SECTORS \div 2048
             reserved_mb == TotalReservedMB(source, opts)
                            + start_alignment_mb + EndReserveMB
         IN  total_disk_mb - reserved_mb
    ELSE source.fat32_size_mb

\* in_mbr of the Linux entry when it always takes an MBR slot
LinuxInMbrAlways(has_gpt) == TRUE

\* in_mbr of the Linux entry: only when the table is pure MBR
LinuxInMbr(has_gpt) == ~has_gpt

\* the Android loop: every partition at current_lba, no rounding in between
RECURSIVE PlaceAndroid(_, _, _)
PlaceAndroid(layout, parts, current_lba) ==
    IF parts = <<>>
    THEN [layout |-> layout, current_lba |-> current_lba]
    ELSE LET apart == Head(parts)
             new_apart == Partition(apart.name, 0, current_lba,
                                    apart.size_sectors, apart.size_mb,
                                    "Android", FALSE, TRUE)
         IN  PlaceAndroid(add_partition(layout, new_apart), Tail(parts),
                          current_lba + apart.size_sectors)

\* the emuMMC loop: every partition at current_lba, no rounding at all
RECURSIVE PlaceEmummc(_, _, _)
PlaceEmummc(layout, parts, current_lba) ==
    IF parts = <<>>
    THEN [layout |-> layout, current_lba |-> current_lba]
    ELSE LET epart == Head(parts)
             new_epart == Partition(epart.name, 224, current_lba,
                                    epart.size_sectors, epart.size_mb,
                                    "emuMMC", TRUE, layout.has_gpt)
         IN  PlaceEmummc(add_partition(layout, new_epart), Tail(parts),
                         current_lba + epart.size_sectors)

calculate_target_layout(source, size_bytes, opts) ==
    LET has_gpt == KeepAndroid(source, opts)
        empty == [DiskLayout EXCEPT
                    !.total_sectors = size_bytes \div SECTOR_SIZE,
                    !.has_gpt = has_gpt,
                    !.android_dynamic = IF KeepAndroid(source, opts)
                                        THEN source.android_dynamic ELSE FALSE,
                    !.emummc_double = IF KeepEmummc(source, opts)
                                      THEN source.emummc_double ELSE FALSE]
        fat32_size_mb == Fat32SizeMB(source, empty.total_sectors, opts)
        fat32_sectors == (fat32_size_mb * 1024 * 1024) \div SECTOR_SIZE
        fat32_part == Partition("hos_data", 12, ALIGN_SECTORS, fat32_sectors,
                                fat32_size_mb, "FAT32", TRUE, has_gpt)
        with_fat32 == add_partition(empty, fat32_part)
        lba_fat32 == AlignUp(ALIGN_SECTORS + fat32_sectors)
        linux_sectors == (source.linux_size_mb * 1024 * 1024) \div SECTOR_SIZE
        linux_part == Partition("l4t", 131, lba_fat32, linux_sectors,
                                source.linux_size_mb, "Linux",
                                LinuxInMbr(has_gpt), has_gpt)
        with_linux == IF KeepLinux(source, opts)
                      THEN add_partition(with_fat32, linux_part)
                      ELSE with_fat32
        lba_linux == IF KeepLinux(source, opts)
                     THEN AlignUp(lba_fat32 + linux_sectors)
                     ELSE lba_fat32
        android == IF KeepAndroid(source, opts)
                   THEN PlaceAndroid(with_linux,
                                     get_android_partitions(source), lba_linux)
                   ELSE [layout |-> with_linux, current_lba |-> lba_linux]
        lba_android == IF KeepAndroid(source, opts)
                       THEN AlignUp(android.current_lba)
                       ELSE android.current_lba
        emummc == IF KeepEmummc(source, opts)
                  THEN PlaceEmummc(android.layout,
                                   get_emummc_partitions(source), lba_android)
                  ELSE [layout |-> android.layout, current_lba |-> lba_android]
    IN  emummc.layout

(***************************************************************************)
(* Layouts a scan can return.  A card holds FAT32 at sector 0x8000, then   *)
(* an optional Linux partition, an Android set and up to two emuMMC        *)
(* partitions; sizes include ones that are no multiple of 1 MiB or of the  *)
(* 16 MiB alignment.                                                       *)
(***************************************************************************)
PartSizes == {2048 * m : m \in 1..MaxPartMB} \cup {2148, ALIGN_SECTORS}
AndroidSizes == {2048, ALIGN_SECTORS}
FatSizes == {ALIGN_SECTORS, 2 * ALIGN_SECTORS + 100}

SizeSeqs(sizes, n) == UNION {[1..k -> sizes] : k \in 0..n}

AndroidNames == <<"boot", "super", "userdata", "vendor">>
EmummcNames == <<"emummc1", "emummc2">>

\* partitions of one category laid one after the other from lba
RECURSIVE OnDisk(_, _, _, _, _, _)
OnDisk(sizes, names, category, lba, in_mbr, in_gpt) ==
    IF sizes = <<>>
    THEN <<>>
    ELSE <<Partition(Head(names),
                     CASE category = "FAT32" -> 12
                       [] category = "Linux" -> 131
                       [] category = "emuMMC" -> 224
                       [] OTHER -> 0,
                     lba, Head(sizes), SizeMB(Head(sizes)), category,
                     in_mbr, in_gpt)>>
         \o OnDisk(Tail(sizes), Tail(names), category,
                   AlignUp(lba + Head(sizes)), in_mbr, in_gpt)

RECURSIVE EndOf(_, _)
EndOf(sizes, lba) ==
    IF sizes = <<>> THEN lba ELSE EndOf(Tail(sizes), AlignUp(lba + Head(sizes)))

\* the partitions found on a card, in physical order
CardPartitions(fat, linux, androids, emummcs) ==
    LET gpt == androids # <<>>
        lba1 == EndOf(<<fat>>, ALIGN_SECTORS)
        lba2 == EndOf(linux, lba1)
        lba3 == EndOf(androids, lba2)
    IN  OnDisk(<<fat>>, <<"hos_data">>, "FAT32", ALIGN_SECTORS, TRUE, gpt)
        \o OnDisk(linux, <<"l4t">>, "Linux", lba1, ~gpt, gpt)
        \o OnDisk(androids, AndroidNames, "Android", lba2, FALSE, TRUE)
        \o OnDisk(emummcs, EmummcNames, "emuMMC", lba3, TRUE, gpt)

RECURSIVE AddAll(_, _)
AddAll(layout, parts) ==
    IF parts = <<>> THEN layout
    ELSE AddAll(add_partition(layout, Head(parts)), Tail(parts))

\* scan_disk: flags and sizes recomputed from the partitions found, has_gpt
\* from the presence of Android, then the Android and emuMMC kinds
scan_disk(parts, disk_size) ==
    LET layout == AddAll([DiskLayout EXCEPT
                            !.total_sectors = disk_size \div SECTOR_SIZE],
                         parts)
    IN  [layout EXCEPT
           !.has_gpt = layout.has_android,
           !.android_dynamic =
               \E i \in DOMAIN parts : /\ parts[i].category = "Android"
                                       /\ parts[i].name = "super",
           !.emummc_double = Len(get_emummc_partitions(layout)) >= 2]

CardSize(parts) ==
    (parts[Len(parts)].start_sector + parts[Len(parts)].size_sectors
       + ALIGN_SECTORS) * SECTOR_SIZE

SourceLayouts ==
    {scan_disk(CardPartitions(fat, linux, androids, emummcs),
               CardSize(CardPartitions(fat, linux, androids, emummcs))) :
        fat \in FatSizes,
        linux \in SizeSeqs(PartSizes, 1),
        androids \in SizeSeqs(AndroidSizes, MaxAndroid),
        emummcs \in SizeSeqs(PartSizes, 2)}

\* the FAT32 toggle is disabled and stays checked
OptionSets ==
    {[migrate_fat32 |-> TRUE, migrate_linux |-> l, migrate_android |-> a,
      migrate_emummc |-> e, expand_fat32 |-> x] :
        l \in BOOLEAN, a \in BOOLEAN, e \in BOOLEAN, x \in BOOLEAN}

TargetSizes ==
    {32 * k * 1024 * 1024 : k \in 1..MaxTargetUnits}
        \cup {40 * 1024 * 1024 + 1000}

(***************************************************************************)
(* The planner applied to every input.                                     *)
(***************************************************************************)
PlanInit ==
    /\ source_layout \in SourceLayouts
    /\ options \in OptionSets
    /\ target_size_bytes \in TargetSizes
    /\ target_layout = NoLayout
    /\ ppc = "call"
    /\ CopyIdle /\ GuiIdle /\ RunIdle /\ CleanIdle /\ MoreIdle

PlanCall ==
    /\ ppc = "call"
    /\ target_layout' = calculate_target_layout(source_layout,
                                                target_size_bytes, options)
    /\ ppc' = "returned"
    /\ UNCHANGED <<source_layout, options, target_size_bytes>>
    /\ UNCHANGED <<copyVars, moreVars, guiVars, runVars, cleanVars>>

PlanNext == PlanCall

PlanSpec == PlanInit /\ [][PlanNext]_vars

Planned == ppc = "returned"

\* the planning errors of the specification, as values the call could return
InsufficientTargetSize == [kind |-> "InsufficientTargetSize"]
TargetNotLarger == [kind |-> "TargetNotLarger"]

IsLayout(l) == "partitions" \in DOMAIN l

\* sectors of the partitions the options preserve, FAT32 aside
PreservedSectors ==
    LET kept == SelectSeq(source_layout.partitions,
                   LAMBDA p :
                       \/ p.category = "Linux" /\ options.migrate_linux
                       \/ p.category = "Android" /\ options.migrate_android
                       \/ p.category = "emuMMC" /\ options.migrate_emummc)
        sum[i \in 0..Len(kept)] ==
            IF i = 0 THEN 0 ELSE sum[i - 1] + kept[i].size_sectors
    IN  sum[Len(kept)]

(***************************************************************************)
(* C7: the planner fails with InsufficientTargetSize whenever the          *)
(* preserved fixed-size partitions plus the 16 MiB lead plus the 9 MiB     *)
(* tail exceed the target size, and it never returns a layout whose FAT32  *)
(* size is zero or negative.                                               *)
(***************************************************************************)
C7_InsufficientTargetRejected ==
    Planned =>
        /\ (PreservedSectors * SECTOR_SIZE + (16 + 9) * 1024 * 1024
               > target_size_bytes)
             => target_layout = InsufficientTargetSize
        /\ IsLayout(target_layout) =>
             \A i \in DOMAIN target_layout.partitions :
                 target_layout.partitions[i].category = "FAT32"
                    => /\ target_layout.partitions[i].size_mb > 0
                       /\ target_layout.partitions[i].size_sectors > 0

(***************************************************************************)
(* C9: in every layout the planner produces, every partition starts at a   *)
(* multiple of 32,768 sectors, also inside an Android set and between the  *)
(* two partitions of a dual emuMMC.                                        *)
(***************************************************************************)
C9_StartsAligned ==
    (Planned /\ IsLayout(target_layout)) =>
        \A i \in DOMAIN target_layout.partitions :
            target_layout.partitions[i].start_sector % ALIGN_SECTORS = 0

(***************************************************************************)
(* C20: in every layout the planner produces with expand_fat32 set and a   *)
(* target large enough for the preserved partitions plus the 16 MiB lead   *)
(* and the 9 MiB tail, every partition ends at or before sector            *)
(* total_sectors - 34: none extends past the end of the disk or into the   *)
(* backup GPT area.                                                        *)
(***************************************************************************)
C20_PartitionsWithinDisk ==
    (/\ Planned
     /\ IsLayout(target_layout)
     /\ options.expand_fat32
     /\ PreservedSectors * SECTOR_SIZE + (16 + 9) * 1024 * 1024
            <= target_size_bytes)
        => \A i \in DOMAIN target_layout.partitions :
               LET p == target_layout.partitions[i]
               IN  p.start_sector + p.size_sectors - 1
                       <= target_layout.total_sectors - 34

(***************************************************************************)
(* What the loop of _copy_partitions copies, as a function of the two      *)
(* layouts and the options (migration_engine.py 164-208).                  *)
(***************************************************************************)
\* the index of the first target partition with the name of source_part,
\* 0 when there is none
FirstByName(tlayout, source_part) ==
    LET hits == {j \in DOMAIN tlayout.partitions :
                    tlayout.partitions[j].name = source_part.name}
    IN  IF hits = {} THEN 0
        ELSE CHOOSE j \in hits : \A k \in hits : j <= k

\* _should_migrate_partition with the options as an argument
ShouldMigrate(opts, partition) ==
    CASE partition.category = "FAT32" -> opts.migrate_fat32
      [] partition.category = "Linux" -> opts.migrate_linux
      [] partition.category = "Android" -> opts.migrate_android
      [] partition.category = "emuMMC" -> opts.migrate_emummc
      [] OTHER -> FALSE

\* the indices of the source partitions the loop copies
CopiedIndices(source, tlayout, opts) ==
    {i \in DOMAIN source.partitions :
        /\ FirstByName(tlayout, source.partitions[i]) # 0
        /\ ShouldMigrate(opts, source.partitions[i])}

\* the sectors a raw copy writes: total_sectors = source_part.size_sectors
\* sectors from target_part.start_sector on
RawWriteExtent(source_part, target_part) ==
    [first |-> target_part.start_sector,
     last |-> target_part.start_sector + source_part.size_sectors - 1]

(***************************************************************************)
(* C21: every sector written by the raw copy of a preserved Linux, Android *)
(* or emuMMC partition lies inside that partition's target range           *)
(* [dst.start_sector, dst.start_sector + dst.size_sectors), for any source *)
(* partition size in sectors.                                              *)
(***************************************************************************)
C21_RawCopyInsideTarget ==
    (Planned /\ IsLayout(target_layout)) =>
        \A i \in CopiedIndices(source_layout, target_layout, options) :
            LET src == source_layout.partitions[i]
                dst == target_layout.partitions[
                           FirstByName(target_layout, src)]
                ext == RawWriteExtent(src, dst)
            IN  src.category # "FAT32"
                    => /\ dst.start_sector <= ext.first
                       /\ ext.last < dst.start_sector + dst.size_sectors

\* the same for the partitions whose size the planner carries over in
\* sectors, Android and emuMMC
C21_AndroidEmummcInsideTarget ==
    (Planned /\ IsLayout(target_layout)) =>
        \A i \in CopiedIndices(source_layout, target_layout, options) :
            LET src == source_layout.partitions[i]
                dst == target_layout.partitions[
                           FirstByName(target_layout, src)]
                ext == RawWriteExtent(src, dst)
            IN  src.category \in {"Android", "emuMMC"}
                    => /\ dst.start_sector <= ext.first
                       /\ ext.last < dst.start_sector + dst.size_sectors

(***************************************************************************)
(* Names the scanner can produce.  A partition found in the MBR is named   *)
(* by _categorize_partition; one found in the GPT keeps the name of its    *)
(* GPT entry, which _deduplicate_partitions prefers.  A GPT entry with the *)
(* Linux GUID is a Linux partition when name.lower() == 'l4t'; entries     *)
(* with the FAT32 or emuMMC GUID are taken under any name.                 *)
(***************************************************************************)
GptFatNames == {"hos_data", "SWITCH SD"}
GptLinuxNames == {"l4t", "L4T"}
GptEmummcNames == {"emummc", "emummc2"}

\* the partitions of a layout with the names of their GPT entries
RECURSIVE WithGptNames(_, _, _, _)
WithGptNames(parts, fat_name, linux_name, emummc_names) ==
    IF parts = <<>> THEN <<>>
    ELSE LET p == Head(parts)
             named ==
                 IF ~p.in_gpt THEN p
                 ELSE CASE p.category = "FAT32" -> [p EXCEPT !.name = fat_name]
                        [] p.category = "Linux" -> [p EXCEPT !.name = linux_name]
                        [] p.category = "emuMMC" ->
                              [p EXCEPT !.name = Head(emummc_names)]
                        [] OTHER -> p
             rest == IF p.in_gpt /\ p.category = "emuMMC"
                     THEN Tail(emummc_names) ELSE emummc_names
         IN  <<named>> \o WithGptNames(Tail(parts), fat_name, linux_name, rest)

\* scanned layouts of cards with a GPT, under every choice of names
NamedSourceLayouts ==
    {[l EXCEPT !.partitions = WithGptNames(l.partitions, f, x, e)] :
        l \in {s \in SourceLayouts : s.has_gpt},
        f \in GptFatNames, x \in GptLinuxNames,
        e \in [1..2 -> GptEmummcNames]}

NamedInit ==
    /\ source_layout \in NamedSourceLayouts
    /\ options \in OptionSets
    /\ target_size_bytes = 32 * MaxTargetUnits * 1024 * 1024
    /\ target_layout = NoLayout
    /\ ppc = "call"
    /\ CopyIdle /\ GuiIdle /\ RunIdle /\ CleanIdle /\ MoreIdle

NamedSpec == NamedInit /\ [][PlanNext]_vars

\* the source partitions whose category is selected and has a partition
\* in the target layout
ToMigrate(source, tlayout, opts) ==
    {i \in DOMAIN source.partitions :
        /\ ShouldMigrate(opts, source.partitions[i])
        /\ \E j \in DOMAIN tlayout.partitions :
              tlayout.partitions[j].category = source.partitions[i].category}

(***************************************************************************)
(* C23: in CopyPartitions every source partition whose category is         *)
(* selected for migration, and for which the planner placed a partition of *)
(* that category in the target layout, is copied to a target partition of  *)
(* that category, each source partition to its own distinct target         *)
(* partition, for any partition names the scanner can produce.             *)
(***************************************************************************)
C23_EverySelectedPartitionCopied ==
    (Planned /\ IsLayout(target_layout)) =>
        LET todo == ToMigrate(source_layout, target_layout, options)
            dst(i) == FirstByName(target_layout, source_layout.partitions[i])
        IN  /\ \A i \in todo :
                  /\ i \in CopiedIndices(source_layout, target_layout,
                                         options)
                  /\ target_layout.partitions[dst(i)].category
                         = source_layout.partitions[i].category
            /\ \A i, k \in todo : i # k => dst(i) # dst(k)

(***************************************************************************)
(* C10: has_gpt is true exactly when the source has Android and Android    *)
(* is preserved; FAT32 and emuMMC entries are in the MBR and in the GPT    *)
(* when there is one; the Linux entry is in the MBR only without a GPT and *)
(* in the GPT when there is one; Android entries are in the GPT only.      *)
(***************************************************************************)
C10_HybridFlags ==
    (Planned /\ IsLayout(target_layout)) =>
        /\ target_layout.has_gpt
             <=> (source_layout.has_android /\ options.migrate_android)
        /\ \A i \in DOMAIN target_layout.partitions :
             LET p == target_layout.partitions[i]
             IN  /\ p.category \in {"FAT32", "emuMMC"} =>
                       p.in_mbr /\ (p.in_gpt <=> target_layout.has_gpt)
                 /\ p.category = "Linux" =>
                       /\ p.in_mbr <=> ~target_layout.has_gpt
                       /\ p.in_gpt <=> target_layout.has_gpt
                 /\ p.category = "Android" => ~p.in_mbr /\ p.in_gpt

C10_Witness ==
    /\ Planned
    /\ target_layout.has_gpt
    /\ \A c \in {"FAT32", "Linux", "Android", "emuMMC"} :
          \E i \in DOMAIN target_layout.partitions :
              target_layout.partitions[i].category = c

(***************************************************************************)
(* The cards in the readers.  Card d is \\.\PhysicalDrive<d>; the cards    *)
(* have 64 MiB, 128 MiB, 128 MiB, ... and hold different partition sets.   *)
(***************************************************************************)
DiskSizeBytes(d) == 64 * 1024 * 1024 * (1 + d \div 2)

\* an entry of DiskSelector.disk_map
Disk(d) == [path |-> d, size_bytes |-> DiskSizeBytes(d)]

DiskIds == 1..NumDisks

\* the partitions on card d
CardContent(d) ==
    CASE d % 3 = 1 -> CardPartitions(ALIGN_SECTORS, <<2148>>, <<>>, <<2048>>)
      [] d % 3 = 2 -> CardPartitions(ALIGN_SECTORS, <<>>, <<2048, 2048>>,
                                     <<2048, 2048>>)
      [] OTHER -> CardPartitions(ALIGN_SECTORS, <<>>, <<>>, <<>>)

(***************************************************************************)
(* Device operations are recorded as they are issued.                      *)
(***************************************************************************)
Op(kind, disk, at_stage, part) ==
    [kind |-> kind, disk |-> disk.path, stage |-> at_stage, part |-> part]

StageEntry(name, ok) == [stage |-> name, ok |-> ok]

\* the last entry of stage_log marked as failed
FailLast(log) == [log EXCEPT ![Len(log)].ok = FALSE]

(***************************************************************************)
(* MainWindow._calculate_layout in migration mode: the button is enabled   *)
(* when the planner returned.                                              *)
(***************************************************************************)
CalculateLayout(layout, target_disk, opts) ==
    /\ target_layout' = calculate_target_layout(layout, target_disk.size_bytes,
                                                opts)
    /\ target_size_bytes' = target_disk.size_bytes
    /\ ppc' = "returned"
    /\ migrate_enabled' = TRUE

(***************************************************************************)
(* DiskSelector._on_source_selected, then MainWindow._on_source_selected.  *)
(***************************************************************************)
SelectSource(d) ==
    /\ ui_enabled
    /\ ds_source' = Disk(d)
    /\ mw_source' = Disk(d)
    /\ source_layout' = NoLayout
    /\ migrate_enabled' = FALSE
    /\ UNCHANGED <<ds_target, mw_target, ui_enabled, target_layout, options,
                   target_size_bytes, ppc>>
    /\ UNCHANGED <<copyVars, moreVars, runVars, cleanVars>>

(***************************************************************************)
(* DiskSelector._on_target_selected, then MainWindow._on_target_selected.  *)
(* The selector refuses the source disk only when a source is selected;    *)
(* the window refuses a target not larger than the source only when a      *)
(* source is selected.                                                     *)
(***************************************************************************)
SelectTarget(d) ==
    /\ ui_enabled
    /\ IF ds_source # NoDisk /\ Disk(d).path = ds_source.path
       THEN UNCHANGED <<ds_target, mw_target, target_layout, migrate_enabled>>
       ELSE /\ target_layout' = NoLayout
            /\ migrate_enabled' = FALSE
            /\ IF mw_source # NoDisk
                  /\ Disk(d).size_bytes <= mw_source.size_bytes
               THEN /\ ds_target' = NoDisk
                    /\ mw_target' = NoDisk
               ELSE /\ ds_target' = Disk(d)
                    /\ mw_target' = Disk(d)
    /\ UNCHANGED <<ds_source, mw_source, ui_enabled, source_layout, options,
                   target_size_bytes, ppc>>
    /\ UNCHANGED <<copyVars, moreVars, runVars, cleanVars>>

(***************************************************************************)
(* MigrationOptionsFrame._on_option_changed, then                          *)
(* MainWindow._on_options_changed in migration mode.                       *)
(***************************************************************************)
OptionsChanged(opts) ==
    /\ ui_enabled
    /\ options' = opts
    /\ IF source_layout # NoLayout /\ mw_target # NoDisk
       THEN CalculateLayout(source_layout, mw_target, opts)
       ELSE UNCHANGED <<target_layout, target_size_bytes, ppc,
                        migrate_enabled>>
    /\ UNCHANGED <<ds_source, ds_target, mw_source, mw_target, ui_enabled,
                   source_layout>>
    /\ UNCHANGED <<copyVars, moreVars, runVars, cleanVars>>

\* update_available_partitions: a toggle without its partition is unchecked
AvailableOptions(opts, layout) ==
    [opts EXCEPT !.migrate_linux = @ /\ layout.has_linux,
                 !.migrate_android = @ /\ layout.has_android,
                 !.migrate_emummc = @ /\ layout.has_emummc]

(***************************************************************************)
(* MainWindow._scan_sd_cards and _on_scan_complete: the source is scanned, *)
(* the toggles follow the partitions found, the layout is calculated.      *)
(***************************************************************************)
ScanSdCards ==
    /\ ui_enabled
    /\ mw_source # NoDisk
    /\ mw_target # NoDisk
    /\ LET scanned == scan_disk(CardContent(mw_source.path),
                                mw_source.size_bytes)
       IN  /\ source_layout' = scanned
           /\ options' = AvailableOptions(options, scanned)
           /\ CalculateLayout(scanned, mw_target,
                              AvailableOptions(options, scanned))
    /\ UNCHANGED <<ds_source, ds_target, mw_source, mw_target, ui_enabled>>
    /\ UNCHANGED <<copyVars, moreVars, runVars, cleanVars>>

(***************************************************************************)
(* MainWindow._start_migration in migration mode, both confirmations       *)
(* accepted: the engine is built from the window's state and started.      *)
(***************************************************************************)
StartMigration ==
    /\ ui_enabled
    /\ migrate_enabled
    /\ ui_enabled' = FALSE
    /\ eng_source' = mw_source
    /\ eng_target' = mw_target
    /\ eng_plan' = [source_layout |-> source_layout,
                    target_layout |-> target_layout, options |-> options]
    /\ stage' = "clean"
    /\ eng_cancelled' = FALSE
    /\ cancel_call' = NoCall
    /\ UNCHANGED <<ds_source, ds_target, mw_source, mw_target,
                   migrate_enabled, stage_log, op_log, copy_idx>>
    /\ UNCHANGED <<copyVars, tableVars, gwVars, emuVars, progVars,
                   planVars, cleanVars>>

\* the stages before which a cancel() call may arrive: "prepare" stands
\* for the moment between Clean and Prepare, and so on; "copy" is inside
\* the copy loop, between two partitions
CancelPoints ==
    {"clean", "prepare", "clear_headers", "write_table", "format",
     "copy_begin", "copy", "post"}

\* MigrationEngine.cancel, called from another thread while run() is at
\* one of these points
EngineCancel ==
    /\ stage \in CancelPoints
    /\ ~eng_cancelled
    /\ eng_cancelled' = TRUE
    /\ cancel_call' = [stage |-> stage, stages_run |-> Len(stage_log)]
    /\ UNCHANGED <<oldVars, tableVars, gwVars, emuVars, progVars>>

(***************************************************************************)
(* MigrationEngine.run.  Every stage is one step; a stage that raises      *)
(* leaves run() through its except clause (on_error), and no later stage   *)
(* is entered.                                                             *)
(***************************************************************************)
\* if not clean_disk(...): raise
AfterClean(ok) == IF ok THEN "prepare" ELSE "error"

\* Stage 0: diskpart clean on the target
RunClean ==
    /\ stage = "clean"
    /\ \E ok \in BOOLEAN :
          /\ stage_log' = Append(stage_log, StageEntry("Clean", ok))
          /\ stage' = AfterClean(ok)
    /\ op_log' = Append(op_log, Op("clean", eng_target, "Clean", ""))
    /\ UNCHANGED <<eng_source, eng_target, eng_plan, copy_idx>>
    /\ UNCHANGED <<copyVars, moreVars, planVars, guiVars, cleanVars>>

\* _prepare_disk_for_write: logs its own failures and never raises
RunPrepare ==
    /\ stage = "prepare"
    /\ stage_log' = Append(stage_log, StageEntry("Prepare", TRUE))
    /\ op_log' = Append(op_log, Op("prepare", eng_target, "Prepare", ""))
    /\ stage' = "clear_headers"
    /\ UNCHANGED <<eng_source, eng_target, eng_plan, copy_idx>>
    /\ UNCHANGED <<copyVars, moreVars, planVars, guiVars, cleanVars>>

\* Stage 1: _clear_target_disk, zeros over the first 0x8000 sectors
RunClearHeaders ==
    /\ stage = "clear_headers"
    /\ \E ok \in BOOLEAN :
          /\ stage_log' = Append(stage_log, StageEntry("ClearHeaders", ok))
          /\ stage' = IF ok THEN "write_table" ELSE "error"
    /\ op_log' = Append(op_log, Op("write", eng_target, "ClearHeaders",
                                   "headers"))
    /\ UNCHANGED <<eng_source, eng_target, eng_plan, copy_idx>>
    /\ UNCHANGED <<copyVars, moreVars, planVars, guiVars, cleanVars>>

\* PartitionWriter.write_partition_table: the sectors written, in order
TableWrites(layout) ==
    IF layout.has_gpt
    THEN <<"mbr", "main_header", "entries", "backup_entries",
           "backup_header">>
    ELSE <<"mbr">>

TableOps(layout, disk, n) ==
    [i \in 1..n |-> Op("write", disk, "WriteTable", TableWrites(layout)[i])]

\* struct.pack('<I', ...) in _create_mbr refuses a negative start or size
MbrPackable(layout) ==
    \A i \in DOMAIN layout.partitions :
        layout.partitions[i].in_mbr =>
            /\ layout.partitions[i].start_sector >= 0
            /\ layout.partitions[i].size_sectors >= 0

\* Stage 2: _write_partition_tables; an MBR that cannot be packed or a
\* failing write ends the stage after the writes that were completed
RunWriteTable ==
    /\ stage = "write_table"
    /\ \/ /\ MbrPackable(eng_plan.target_layout)
          /\ op_log' = op_log \o
                TableOps(eng_plan.target_layout, eng_target,
                         Len(TableWrites(eng_plan.target_layout)))
          /\ stage_log' = Append(stage_log, StageEntry("WriteTable", TRUE))
          /\ stage' = "format"
       \/ \E n \in 0..(Len(TableWrites(eng_plan.target_layout)) - 1) :
          /\ op_log' = op_log \o
                TableOps(eng_plan.target_layout, eng_target, n)
          /\ stage_log' = Append(stage_log, StageEntry("WriteTable", FALSE))
          /\ stage' = "error"
    /\ UNCHANGED <<eng_source, eng_target, eng_plan, copy_idx>>
    /\ UNCHANGED <<copyVars, moreVars, planVars, guiVars, cleanVars>>

HasFat32(layout) ==
    \E i \in DOMAIN layout.partitions : layout.partitions[i].category = "FAT32"

\* Stage 3: _create_fat32_filesystem when the layout has a FAT32 partition.
\* A failing drive-letter assignment or format raises.  The BPB check that
\* ends the stage finds the field correct, rewrites it, or fails (dismount,
\* boot-sector read or write): that failure is caught and logged inside
\* _verify_and_fix_fat32_bpb, and the run goes on to the copy.  The
\* operation that raised is kept in the log with the kind "raised".
RunFormatFAT32 ==
    /\ stage = "format"
    /\ IF HasFat32(eng_plan.target_layout)
       THEN \/ \E bpb \in {"correct", "fixed", "error_logged"} :
               /\ op_log' = op_log \o
                     <<Op("format", eng_target, "FormatFAT32", "hos_data")>>
                     \o (CASE bpb = "fixed" ->
                               <<Op("write", eng_target, "FormatFAT32",
                                    "bpb")>>
                           [] bpb = "error_logged" ->
                               <<Op("raised", eng_target, "FormatFAT32",
                                    "bpb")>>
                           [] OTHER -> <<>>)
               /\ stage_log' = Append(stage_log,
                      StageEntry("FormatFAT32", bpb # "error_logged"))
               /\ stage' = "copy_begin"
            \/ /\ op_log' = Append(op_log, Op("format", eng_target,
                                              "FormatFAT32", "hos_data"))
               /\ stage_log' = Append(stage_log,
                                      StageEntry("FormatFAT32", FALSE))
               /\ stage' = "error"
       ELSE /\ stage' = "copy_begin"
            /\ UNCHANGED <<op_log, stage_log>>
    /\ UNCHANGED <<eng_source, eng_target, eng_plan, copy_idx>>
    /\ UNCHANGED <<copyVars, moreVars, planVars, guiVars, cleanVars>>

\* Stage 4: _copy_partitions prepares the disk once, then loops
RunCopyBegin ==
    /\ stage = "copy_begin"
    /\ stage_log' = Append(stage_log, StageEntry("CopyPartitions", TRUE))
    /\ op_log' = Append(op_log, Op("prepare", eng_target, "CopyPartitions",
                                   ""))
    /\ copy_idx' = 1
    /\ stage' = "copy"
    /\ UNCHANGED <<eng_source, eng_target, eng_plan>>
    /\ UNCHANGED <<copyVars, moreVars, planVars, guiVars, cleanVars>>

\* the first target partition with the name of the source partition
HasTargetPart(source_part) ==
    \E i \in DOMAIN eng_plan.target_layout.partitions :
        eng_plan.target_layout.partitions[i].name = source_part.name

_should_migrate_partition(partition) ==
    CASE partition.category = "FAT32" -> eng_plan.options.migrate_fat32
      [] partition.category = "Linux" -> eng_plan.options.migrate_linux
      [] partition.category = "Android" -> eng_plan.options.migrate_android
      [] partition.category = "emuMMC" -> eng_plan.options.migrate_emummc
      [] OTHER -> FALSE

\* one turn of the loop of _copy_partitions: the partition is skipped, or
\* its data is read from the source and written to the target.  With the
\* cancelled flag set a raw copy raises before its first read; the file
\* copy of FAT32 looks at the flag once per file, so it raises at the first
\* file and ends normally when the volume holds no file.
RunCopyPartition ==
    /\ stage = "copy"
    /\ copy_idx <= Len(eng_plan.source_layout.partitions)
    /\ LET source_part == eng_plan.source_layout.partitions[copy_idx]
       IN  IF HasTargetPart(source_part)
              /\ _should_migrate_partition(source_part)
              /\ eng_cancelled
           THEN IF source_part.category = "FAT32"
                THEN /\ op_log' = Append(op_log,
                            Op("read", eng_source, "CopyPartitions",
                               source_part.name))
                     /\ \/ /\ copy_idx' = copy_idx + 1
                           /\ UNCHANGED <<stage, stage_log>>
                        \/ /\ stage' = "error"
                           /\ stage_log' = FailLast(stage_log)
                           /\ UNCHANGED copy_idx
                ELSE /\ stage' = "error"
                     /\ stage_log' = FailLast(stage_log)
                     /\ UNCHANGED <<copy_idx, op_log>>
           ELSE
           IF HasTargetPart(source_part)
              /\ _should_migrate_partition(source_part)
           THEN /\ op_log' = op_log \o
                      <<Op("read", eng_source, "CopyPartitions",
                           source_part.name),
                        Op("write", eng_target, "CopyPartitions",
                           source_part.name)>>
                /\ \/ /\ copy_idx' = copy_idx + 1
                      /\ UNCHANGED <<stage, stage_log>>
                   \/ /\ stage' = "error"
                      /\ stage_log' = FailLast(stage_log)
                      /\ UNCHANGED copy_idx
           ELSE /\ copy_idx' = copy_idx + 1
                /\ UNCHANGED <<op_log, stage, stage_log>>
    /\ UNCHANGED <<eng_source, eng_target, eng_plan>>
    /\ UNCHANGED <<copyVars, moreVars, planVars, guiVars, cleanVars>>

\* the loop is over; Stage 5 runs when emuMMC is migrated and present
RunCopyEnd ==
    /\ stage = "copy"
    /\ copy_idx > Len(eng_plan.source_layout.partitions)
    /\ stage' = IF /\ eng_plan.options.migrate_emummc
                   /\ eng_plan.source_layout.has_emummc
                THEN "post" ELSE "complete"
    /\ UNCHANGED <<eng_source, eng_target, eng_plan, stage_log, op_log,
                   copy_idx>>
    /\ UNCHANGED <<copyVars, moreVars, planVars, guiVars, cleanVars>>

\* Stage 5: _update_emummc_config logs its own failures and never raises
RunPostProcessEmuMMC ==
    /\ stage = "post"
    /\ stage_log' = Append(stage_log, StageEntry("PostProcessEmuMMC", TRUE))
    /\ \/ op_log' = Append(op_log, Op("write", eng_target,
                                      "PostProcessEmuMMC", "emummc_config"))
       \/ UNCHANGED op_log
    /\ stage' = "complete"
    /\ UNCHANGED <<eng_source, eng_target, eng_plan, copy_idx>>
    /\ UNCHANGED <<copyVars, moreVars, planVars, guiVars, cleanVars>>

\* on_complete: the end of a successful run
RunComplete ==
    /\ stage = "complete"
    /\ stage_log' = Append(stage_log, StageEntry("Done", TRUE))
    /\ stage' = "done"
    /\ UNCHANGED <<eng_source, eng_target, eng_plan, op_log, copy_idx>>
    /\ UNCHANGED <<copyVars, moreVars, planVars, guiVars, cleanVars>>

\* except Exception: on_error
RunError ==
    /\ stage = "error"
    /\ stage' = "failed"
    /\ UNCHANGED <<eng_source, eng_target, eng_plan, stage_log, op_log,
                   copy_idx>>
    /\ UNCHANGED <<copyVars, moreVars, planVars, guiVars, cleanVars>>

\* the engine is gone: its record is dropped, the next run starts a new one
EngineGone ==
    /\ eng_source' = NoDisk
    /\ eng_target' = NoDisk
    /\ eng_plan' = NoPlan
    /\ stage' = "idle"
    /\ stage_log' = <<>>
    /\ op_log' = <<>>
    /\ copy_idx' = 0

\* _on_operation_complete, complete_ui: the window is enabled again
OperationCompleteUi ==
    /\ stage = "done"
    /\ ui_enabled' = TRUE
    /\ migrate_enabled' = TRUE
    /\ EngineGone
    /\ UNCHANGED <<ds_source, ds_target, mw_source, mw_target>>
    /\ UNCHANGED <<copyVars, moreVars, planVars, cleanVars>>

\* _on_operation_error, error_ui: the window is enabled again
OperationErrorUi ==
    /\ stage = "failed"
    /\ ui_enabled' = TRUE
    /\ migrate_enabled' = TRUE
    /\ EngineGone
    /\ UNCHANGED <<ds_source, ds_target, mw_source, mw_target>>
    /\ UNCHANGED <<copyVars, moreVars, planVars, cleanVars>>

AppInit ==
    /\ GuiIdle /\ RunIdle /\ PlanIdle /\ CopyIdle /\ CleanIdle
    /\ MoreIdle

AppNext ==
    \/ \E d \in DiskIds : SelectSource(d)
    \/ \E d \in DiskIds : SelectTarget(d)
    \/ \E opts \in OptionSets : OptionsChanged(opts)
    \/ ScanSdCards
    \/ StartMigration
    \/ RunClean \/ RunPrepare \/ RunClearHeaders \/ RunWriteTable
    \/ RunFormatFAT32 \/ RunCopyBegin \/ RunCopyPartition \/ RunCopyEnd
    \/ RunPostProcessEmuMMC \/ RunComplete \/ RunError
    \/ EngineCancel
    \/ OperationCompleteUi \/ OperationErrorUi

AppSpec == AppInit /\ [][AppNext]_vars

StageOrder ==
    <<"Clean", "Prepare", "ClearHeaders", "WriteTable", "FormatFAT32",
      "CopyPartitions", "PostProcessEmuMMC", "Done">>

StageIndex(name) == CHOOSE i \in DOMAIN StageOrder : StageOrder[i] = name

StageRan(name) == \E i \in DOMAIN stage_log : stage_log[i].stage = name

(***************************************************************************)
(* C4: a migration run enters its stages in the order Clean, Prepare,      *)
(* ClearHeaders, WriteTable, FormatFAT32, CopyPartitions,                  *)
(* PostProcessEmuMMC, Done; no partition data is copied before the table   *)
(* writes have completed; a stage that failed is the last stage of the     *)
(* run, and no operation of a later stage reaches the target.              *)
(***************************************************************************)
C4_StageOrder ==
    /\ \A i, j \in DOMAIN stage_log :
          i < j => StageIndex(stage_log[i].stage)
                       < StageIndex(stage_log[j].stage)
    /\ \A i \in DOMAIN stage_log :
          /\ ~stage_log[i].ok => i = Len(stage_log)
          /\ (i > 1 /\ stage_log[i].stage # "Done") =>
                StageIndex(stage_log[i].stage)
                    \in {StageIndex(stage_log[i - 1].stage) + 1}
          /\ i = 1 => stage_log[i].stage = "Clean"
    /\ \A i \in DOMAIN op_log :
          /\ StageRan(op_log[i].stage)
          /\ \A j \in DOMAIN stage_log :
                ~stage_log[j].ok =>
                    StageIndex(op_log[i].stage)
                        <= StageIndex(stage_log[j].stage)
          /\ op_log[i].stage = "CopyPartitions" =>
                /\ \E j \in DOMAIN stage_log :
                      stage_log[j] = StageEntry("WriteTable", TRUE)
                /\ \A w \in 1..Len(TableWrites(eng_plan.target_layout)) :
                      \E k \in 1..(i - 1) :
                          op_log[k] = Op("write", eng_target, "WriteTable",
                                         TableWrites(eng_plan.target_layout)[w])
                /\ \A k \in DOMAIN op_log :
                      op_log[k].stage = "WriteTable" => k < i
    /\ stage = "done" =>
          \A n \in 1..6 : StageRan(StageOrder[n])

ModifyingOps == {"clean", "prepare", "write", "format"}

(***************************************************************************)
(* C5: during a migration every clean, header clear, table write, format   *)
(* and data write goes to a device other than the source, whatever the     *)
(* order in which source and target were selected.                         *)
(***************************************************************************)
C5_SourceNeverModified ==
    \A i \in DOMAIN op_log :
        op_log[i].kind \in ModifyingOps => op_log[i].disk # eng_source.path

(***************************************************************************)
(* C8: in migration mode a target not larger than the source is refused:   *)
(* planning returns TargetNotLarger instead of a layout, and no clean,     *)
(* read or write reaches the target, whichever disk was selected first.    *)
(***************************************************************************)
C8_TargetNotLargerRejected ==
    /\ (IsLayout(source_layout) /\ ppc = "returned"
          /\ target_size_bytes <= source_layout.total_sectors * SECTOR_SIZE)
         => target_layout = TargetNotLarger
    /\ (stage # "idle" /\ eng_target.size_bytes <= eng_source.size_bytes)
         => \A i \in DOMAIN op_log : op_log[i].disk # eng_target.path

(***************************************************************************)
(* Cleanup of one card (cleanup_engine.py).  The card's contents are kept  *)
(* as the extents written since the start: a sector outside every extent   *)
(* holds what it held before the cleanup.                                  *)
(***************************************************************************)
Extent(start, count, what) == [start |-> start, count |-> count, what |-> what]

\* the contents of a sector: the last write that covers it, else the original
SectorAfter(writes, sector) ==
    LET hits == {i \in DOMAIN writes :
                    /\ writes[i].start <= sector
                    /\ sector < writes[i].start + writes[i].count}
    IN  IF hits = {}
        THEN [orig |-> sector]
        ELSE [written |-> writes[CHOOSE i \in hits :
                                    \A j \in hits : j <= i].what]

(***************************************************************************)
(* The emuMMC configuration files, as both engines write them.             *)
(***************************************************************************)
HEKATE_BOOT0_OFFSET == 32768
EMUMMC_INI_OFFSET == 94208

\* int.to_bytes(4, byteorder='little')
to_bytes(v) ==
    <<v % 256, (v \div 256) % 256, (v \div 65536) % 256,
      (v \div 16777216) % 256>>

\* the reading of a 4-byte little-endian unsigned integer
from_bytes(b) == b[1] + 256 * b[2] + 65536 * b[3] + 16777216 * b[4]

RECURSIVE HexDigits(_)
\* the digits of f"{v:X}", most significant first
HexDigits(v) ==
    IF v < 16 THEN <<v>> ELSE Append(HexDigits(v \div 16), v % 16)

RECURSIVE ParseHex(_)
\* the value of a string of hexadecimal digits
ParseHex(d) ==
    IF Len(d) = 0 THEN 0
    ELSE 16 * ParseHex(SubSeq(d, 1, Len(d) - 1)) + d[Len(d)]

\* emuMMC/RAW1/raw_based and the sector line of emuMMC/emummc.ini; an
\* empty sequence is a file that is absent or empty
ConfigFiles(raw_based, sector) ==
    [kind |-> "Files", raw_based |-> raw_based, sector |-> sector]

\* CleanupEngine: emummc_ini_sector = target_emummc_gpt_start
\*                                      + EMUMMC_INI_OFFSET
cleanup_emummc_ini_sector(target_emummc_gpt_start) ==
    target_emummc_gpt_start + EMUMMC_INI_OFFSET

CleanupOptionSets ==
    {[remove_linux |-> l, remove_android |-> a, remove_emummc |-> e,
      expand_fat32 |-> x] :
        l \in BOOLEAN, a \in BOOLEAN, e \in BOOLEAN, x \in BOOLEAN}

\* MainWindow._calculate_layout, cleanup mode: what is not removed is kept
cleanup_options_for_calc(co) ==
    [migrate_fat32 |-> TRUE, migrate_linux |-> ~co.remove_linux,
     migrate_android |-> ~co.remove_android,
     migrate_emummc |-> ~co.remove_emummc, expand_fat32 |-> co.expand_fat32]

\* the toggles of the options frame in cleanup mode: checked means remove
FrameOptions(co) ==
    [migrate_fat32 |-> TRUE, migrate_linux |-> co.remove_linux,
     migrate_android |-> co.remove_android,
     migrate_emummc |-> co.remove_emummc, expand_fat32 |-> co.expand_fat32]

\* the card has been scanned, the preview calculated for the same disk size
\* and the CleanupEngine constructed
CleanupInit ==
    /\ source_layout \in SourceLayouts
    /\ cleanup_options \in CleanupOptionSets
    /\ options = FrameOptions(cleanup_options)
    /\ target_size_bytes = source_layout.total_sectors * SECTOR_SIZE
    /\ target_layout = calculate_target_layout(
                           source_layout, target_size_bytes,
                           cleanup_options_for_calc(cleanup_options))
    /\ ppc = "returned"
    /\ eng_source = [path |-> 1, size_bytes |-> target_size_bytes]
    /\ eng_target = NoDisk
    /\ eng_plan = [source_layout |-> source_layout,
                   target_layout |-> target_layout,
                   options |-> cleanup_options]
    /\ stage = "backup"
    /\ stage_log = <<>>
    /\ op_log = <<>>
    /\ copy_idx = 0
    /\ disk_writes = <<>>
    /\ temp_backup_dir = "absent"
    /\ ds_source = eng_source
    /\ ds_target = NoDisk
    /\ mw_source = eng_source
    /\ mw_target = NoDisk
    /\ migrate_enabled = FALSE
    /\ ui_enabled = FALSE
    /\ CopyIdle
    /\ MoreIdle

\* Stage 1: _backup_fat32_data; the files of the FAT32 partition are copied
\* to a temporary directory, which may exist when the copy fails
CleanupBackup ==
    /\ stage = "backup"
    /\ \/ /\ temp_backup_dir' = "holds_backup"
          /\ stage_log' = Append(stage_log, StageEntry("Backup", TRUE))
          /\ op_log' = Append(op_log, Op("read", eng_source, "Backup",
                                         "hos_data"))
          /\ stage' = "clean"
       \/ /\ temp_backup_dir' \in {"absent", "partial"}
          /\ stage_log' = Append(stage_log, StageEntry("Backup", FALSE))
          /\ UNCHANGED op_log
          /\ stage' = "error"
    /\ UNCHANGED <<eng_source, eng_target, eng_plan, copy_idx>>
    /\ UNCHANGED <<cleanup_options, disk_writes>>
    /\ UNCHANGED <<copyVars, moreVars, planVars, guiVars>>

\* Stage 2: _clean_disk; diskpart clean drops the partition table
CleanupCleanDisk ==
    /\ stage = "clean"
    /\ \E ok \in BOOLEAN :
          /\ stage_log' = Append(stage_log, StageEntry("Clean", ok))
          /\ stage' = IF ok THEN "write_table" ELSE "error"
    /\ op_log' = Append(op_log, Op("clean", eng_source, "Clean", ""))
    /\ UNCHANGED <<eng_source, eng_target, eng_plan, copy_idx>>
    /\ UNCHANGED cleanVars
    /\ UNCHANGED <<copyVars, moreVars, planVars, guiVars>>

\* the extents write_partition_table writes, in order
TableExtents(layout) ==
    IF layout.has_gpt
    THEN <<Extent(0, 1, "mbr"), Extent(1, 1, "main_header"),
           Extent(2, 32, "entries"),
           Extent(layout.total_sectors - 33, 32, "backup_entries"),
           Extent(layout.total_sectors - 1, 1, "backup_header")>>
    ELSE <<Extent(0, 1, "mbr")>>

\* Stage 3: _write_partition_tables
CleanupWriteTable ==
    /\ stage = "write_table"
    /\ \/ /\ MbrPackable(eng_plan.target_layout)
          /\ disk_writes' = disk_writes \o TableExtents(eng_plan.target_layout)
          /\ op_log' = op_log \o TableOps(eng_plan.target_layout, eng_source,
                                  Len(TableWrites(eng_plan.target_layout)))
          /\ stage_log' = Append(stage_log, StageEntry("WriteTable", TRUE))
          /\ stage' = "format"
       \/ \E n \in 0..(Len(TableWrites(eng_plan.target_layout)) - 1) :
          /\ disk_writes' = disk_writes \o
                SubSeq(TableExtents(eng_plan.target_layout), 1, n)
          /\ op_log' = op_log \o TableOps(eng_plan.target_layout, eng_source,
                                          n)
          /\ stage_log' = Append(stage_log, StageEntry("WriteTable", FALSE))
          /\ stage' = "error"
    /\ UNCHANGED <<eng_source, eng_target, eng_plan, copy_idx>>
    /\ UNCHANGED <<cleanup_options, temp_backup_dir>>
    /\ UNCHANGED <<copyVars, moreVars, planVars, guiVars>>

\* the FAT32 partition of a layout (get_fat32_partition)
get_fat32_partition(layout) ==
    layout.partitions[CHOOSE i \in DOMAIN layout.partitions :
        /\ layout.partitions[i].category = "FAT32"
        /\ \A j \in 1..(i - 1) : layout.partitions[j].category # "FAT32"]

\* Stage 4: _create_fat32_filesystem formats the new FAT32 range
CleanupCreateFAT32 ==
    /\ stage = "format"
    /\ \/ /\ HasFat32(eng_plan.target_layout)
          /\ LET fat32_part == get_fat32_partition(eng_plan.target_layout)
             IN  disk_writes' = Append(disk_writes,
                     Extent(fat32_part.start_sector, fat32_part.size_sectors,
                            "format"))
          /\ op_log' = Append(op_log, Op("format", eng_source, "FormatFAT32",
                                         "hos_data"))
          /\ stage_log' = Append(stage_log, StageEntry("FormatFAT32", TRUE))
          /\ stage' = "restore"
       \/ /\ UNCHANGED <<disk_writes, op_log>>
          /\ stage_log' = Append(stage_log, StageEntry("FormatFAT32", FALSE))
          /\ stage' = "error"
    /\ UNCHANGED <<eng_source, eng_target, eng_plan, copy_idx>>
    /\ UNCHANGED <<cleanup_options, temp_backup_dir>>
    /\ UNCHANGED <<copyVars, moreVars, planVars, guiVars>>

\* Stage 5: _restore_fat32_data copies the backup into the new FAT32
CleanupRestore ==
    /\ stage = "restore"
    /\ LET fat32_part == get_fat32_partition(eng_plan.target_layout)
       IN  disk_writes' = Append(disk_writes,
               Extent(fat32_part.start_sector, fat32_part.size_sectors,
                      "files"))
    /\ op_log' = Append(op_log, Op("write", eng_source, "Restore",
                                   "hos_data"))
    /\ \E ok \in BOOLEAN :
          /\ stage_log' = Append(stage_log, StageEntry("Restore", ok))
          /\ stage' = IF ~ok THEN "error"
                      ELSE IF /\ ~eng_plan.options.remove_emummc
                              /\ eng_plan.source_layout.has_emummc
                           THEN "emummc_config" ELSE "complete"
    /\ UNCHANGED <<eng_source, eng_target, eng_plan, copy_idx>>
    /\ UNCHANGED <<cleanup_options, temp_backup_dir>>
    /\ UNCHANGED <<copyVars, moreVars, planVars, guiVars>>

\* Stage 6: _update_emummc_config writes emuMMC/RAW1/raw_based and
\* emuMMC/emummc.ini on the FAT32 partition, whose drive letter the restore
\* has used; it logs its own failures and never raises
CleanupUpdateEmummcConfig ==
    /\ stage = "emummc_config"
    /\ stage_log' = Append(stage_log, StageEntry("PostProcessEmuMMC", TRUE))
    /\ LET v == cleanup_emummc_ini_sector(
                    get_emummc_partitions(
                        eng_plan.target_layout)[1].start_sector)
       IN  \/ /\ op_log' = Append(op_log, Op("write", eng_source,
                                    "PostProcessEmuMMC", "emummc_config"))
              /\ emummc_files' = ConfigFiles(to_bytes(v), HexDigits(v))
              /\ emupc' = "created"
           \/ /\ emupc' = "error"
              /\ UNCHANGED <<op_log, emummc_files>>
    /\ stage' = "complete"
    /\ UNCHANGED <<eng_source, eng_target, eng_plan, copy_idx>>
    /\ UNCHANGED cleanVars
    /\ UNCHANGED <<copyVars, planVars, guiVars>>
    /\ UNCHANGED <<tableVars, cancelVars, gwVars, progVars>>
    /\ UNCHANGED <<emu_inner, detected_offset>>

\* finally: the temporary directory is removed when it exists
RemoveTemp(dir) == IF dir = "absent" THEN "absent" ELSE "deleted"

\* on_complete, then the finally clause
CleanupComplete ==
    /\ stage = "complete"
    /\ stage_log' = Append(stage_log, StageEntry("Done", TRUE))
    /\ temp_backup_dir' = RemoveTemp(temp_backup_dir)
    /\ stage' = "done"
    /\ UNCHANGED <<eng_source, eng_target, eng_plan, op_log, copy_idx>>
    /\ UNCHANGED <<cleanup_options, disk_writes>>
    /\ UNCHANGED <<copyVars, moreVars, planVars, guiVars>>

\* except Exception: on_error, then the finally clause
CleanupError ==
    /\ stage = "error"
    /\ temp_backup_dir' = RemoveTemp(temp_backup_dir)
    /\ stage' = "failed"
    /\ UNCHANGED <<eng_source, eng_target, eng_plan, stage_log, op_log,
                   copy_idx>>
    /\ UNCHANGED <<cleanup_options, disk_writes>>
    /\ UNCHANGED <<copyVars, moreVars, planVars, guiVars>>

CleanupNext ==
    \/ CleanupBackup \/ CleanupCleanDisk \/ CleanupWriteTable
    \/ CleanupCreateFAT32 \/ CleanupRestore \/ CleanupUpdateEmummcConfig
    \/ CleanupComplete \/ CleanupError

CleanupSpec == CleanupInit /\ [][CleanupNext]_vars

\* the partitions of the source that the cleanup keeps, FAT32 aside
KeptRaw(layout, co) ==
    SelectSeq(layout.partitions,
        LAMBDA p : \/ p.category = "Linux" /\ ~co.remove_linux
                   \/ p.category = "Android" /\ ~co.remove_android
                   \/ p.category = "emuMMC" /\ ~co.remove_emummc)

\* the entry the new table has for a kept partition
NewEntry(layout, old) ==
    layout.partitions[CHOOSE i \in DOMAIN layout.partitions :
        /\ layout.partitions[i].category = old.category
        /\ layout.partitions[i].name = old.name]

SampleOffsets(count) == {0, count \div 2, count - 1}

(***************************************************************************)
(* C6: after a cleanup that completed, every kept partition other than     *)
(* FAT32 holds in the range of its new table entry the data it held in its *)
(* old range (compared at its first, middle and last sector).              *)
(***************************************************************************)
C6_KeptDataInNewRange ==
    stage = "done" =>
        \A n \in DOMAIN KeptRaw(eng_plan.source_layout, eng_plan.options) :
            LET old == KeptRaw(eng_plan.source_layout, eng_plan.options)[n]
                new == NewEntry(eng_plan.target_layout, old)
            IN  \A k \in SampleOffsets(old.size_sectors) :
                    SectorAfter(disk_writes, new.start_sector + k)
                        = [orig |-> old.start_sector + k]

(***************************************************************************)
(* Where the user's FAT32 files are during a cleanup.                      *)
(***************************************************************************)
StageSucceeded(name) ==
    \E i \in DOMAIN stage_log :
        stage_log[i].stage = name /\ stage_log[i].ok

\* the card's FAT32 volume holds the files: until diskpart clean has
\* dropped the partitions, and again once the restore has succeeded
FilesOnCard == ~StageSucceeded("Clean") \/ StageSucceeded("Restore")

\* the off-disk backup directory holds the files
FilesInBackup == temp_backup_dir = "holds_backup"

\* C22: at every point of a cleanup run and after it ends, in success or
\* in error, the user's FAT32 files exist on the card's FAT32 volume or in
\* the off-disk backup directory; the device is cleaned only after the
\* backup succeeded
C22_FilesNeverLost ==
    /\ FilesOnCard \/ FilesInBackup
    /\ StageRan("Clean") => StageSucceeded("Backup")

\* the part that holds: the clean comes after a backup that succeeded,
\* and the backup is in place for as long as the run has not ended
C22_BackupBeforeClean ==
    /\ StageRan("Clean") => StageSucceeded("Backup")
    /\ (StageSucceeded("Clean") /\ stage \notin {"done", "failed"})
           => FilesInBackup

(***************************************************************************)
(* The partition table on a device: PartitionWriter.write_partition_table  *)
(* followed by PartitionScanner.scan_disk.  The MBR is its boot signature  *)
(* and its four slots; the GPT is the "EFI PART" signature of sector 1 and *)
(* the entries of sectors 2..33.  The backup GPT is never read back.       *)
(***************************************************************************)
GUID_FAT32 == "GUID_FAT32"
GUID_LINUX == "GUID_LINUX"
GUID_EMUMMC == "GUID_EMUMMC"
GUID_ZERO == "GUID_ZERO"

EmptySlot == [type |-> 0, start |-> 0, size |-> 0]

\* category_order.get(p.category, 99) with the stable list sort
SortedByCategory(parts) ==
    SelectSeq(parts, LAMBDA p : p.category = "FAT32")
    \o SelectSeq(parts, LAMBDA p : p.category = "Linux")
    \o SelectSeq(parts, LAMBDA p : p.category = "emuMMC")
    \o SelectSeq(parts, LAMBDA p : p.category \notin
                                      {"FAT32", "Linux", "emuMMC"})

\* PartitionWriter._create_mbr: the in_mbr partitions in category order in
\* the first slots, at most four; the protective entry in the next slot
\* when the layout has a GPT and a slot is left.  struct.pack('<I') takes
\* the start and the size as they are or raises (MbrPackable).
_create_mbr(layout) ==
    LET mbr_partitions ==
            SortedByCategory(SelectSeq(layout.partitions,
                                       LAMBDA p : p.in_mbr))
        mbr_idx == Min(Len(mbr_partitions), 4)
    IN  [signature |-> TRUE,
         slots |-> [i \in 1..4 |->
            IF i <= mbr_idx
            THEN [type |-> mbr_partitions[i].type_id,
                  start |-> mbr_partitions[i].start_sector,
                  size |-> mbr_partitions[i].size_sectors]
            ELSE IF layout.has_gpt /\ i = mbr_idx + 1
                 THEN [type |-> 238, start |-> 1,
                       size |-> layout.total_sectors - 1]
                 ELSE EmptySlot]]

\* the type GUID written for a category
TypeGuid(category) ==
    CASE category = "FAT32" -> GUID_FAT32
      [] category \in {"Linux", "Android"} -> GUID_LINUX
      [] category = "emuMMC" -> GUID_EMUMMC
      [] OTHER -> GUID_ZERO

\* PartitionWriter._create_gpt: one entry per in_gpt partition, in layout
\* order, at most 128; the random partition GUID is left out.  Every name
\* used here is shorter than 36 characters, so the UTF-16 field holds it
\* whole.
_create_gpt(layout) ==
    LET gpt_partitions == SelectSeq(layout.partitions, LAMBDA p : p.in_gpt)
    IN  [i \in 1..Min(Len(gpt_partitions), 128) |->
            [type_guid |-> TypeGuid(gpt_partitions[i].category),
             lba_start |-> gpt_partitions[i].start_sector,
             lba_end |-> gpt_partitions[i].start_sector
                           + gpt_partitions[i].size_sectors - 1,
             name |-> gpt_partitions[i].name]]

\* what write_partition_table writes, in order: the MBR, then for a layout
\* with a GPT the main header and the entries (the two backup writes follow)
TableSectors(layout) ==
    IF layout.has_gpt
    THEN <<"mbr", "main_header", "entries", "backup_entries",
           "backup_header">>
    ELSE <<"mbr">>

\* the device after the first n writes of write_partition_table
write_partition_table(dev, layout, n) ==
    [dev EXCEPT
       !.mbr = IF n >= 1 THEN _create_mbr(layout) ELSE @,
       !.gpt_header = IF layout.has_gpt /\ n >= 2 THEN TRUE ELSE @,
       !.gpt_entries = IF layout.has_gpt /\ n >= 3
                       THEN _create_gpt(layout) ELSE @]

\* PartitionScanner._categorize_partition: <<category, name>> of MBR slot i
EmummcSlotNames == <<"emummc0", "emummc1", "emummc2", "emummc3">>
MbrSlotNames == <<"MBR0", "MBR1", "MBR2", "MBR3">>

_categorize_partition(type_id, i) ==
    CASE type_id \in {12, 11} -> <<"FAT32", "hos_data">>
      [] type_id = 131 -> <<"Linux", "l4t">>
      [] type_id = 224 -> <<"emuMMC", EmummcSlotNames[i]>>
      [] OTHER -> <<"Unknown", MbrSlotNames[i]>>

\* PartitionScanner._parse_mbr: the slots that are neither empty nor
\* protective, as in_mbr partitions (the caller has seen the signature)
RECURSIVE ParseSlots(_, _)
ParseSlots(slots, i) ==
    IF i > Len(slots)
    THEN <<>>
    ELSE (IF \/ slots[i].type = 0
             \/ slots[i].size = 0
             \/ slots[i].type = 238
          THEN <<>>
          ELSE <<Partition(_categorize_partition(slots[i].type, i)[2],
                           slots[i].type, slots[i].start, slots[i].size,
                           SizeMB(slots[i].size),
                           _categorize_partition(slots[i].type, i)[1],
                           TRUE, FALSE)>>)
         \o ParseSlots(slots, i + 1)

_parse_mbr(mbr) == ParseSlots(mbr.slots, 1)

\* PartitionScanner._categorize_gpt_partition; the names used here are
\* lower case already
_categorize_gpt_partition(type_guid, name) ==
    CASE type_guid = GUID_FAT32 -> "FAT32"
      [] type_guid = GUID_LINUX -> IF name = "l4t" THEN "Linux" ELSE "Android"
      [] type_guid = GUID_EMUMMC -> "emuMMC"
      [] OTHER -> "Unknown"

\* PartitionScanner._parse_gpt: the entries whose type GUID is not zero, as
\* in_gpt partitions
RECURSIVE ParseEntries(_, _)
ParseEntries(entries, i) ==
    IF i > Len(entries)
    THEN <<>>
    ELSE (IF entries[i].type_guid = GUID_ZERO
          THEN <<>>
          ELSE <<Partition(entries[i].name, 0, entries[i].lba_start,
                           entries[i].lba_end - entries[i].lba_start + 1,
                           SizeMB(entries[i].lba_end
                                    - entries[i].lba_start + 1),
                           _categorize_gpt_partition(entries[i].type_guid,
                                                     entries[i].name),
                           FALSE, TRUE)>>)
         \o ParseEntries(entries, i + 1)

_parse_gpt(gpt_data) == ParseEntries(gpt_data, 1)

Abs(x) == IF x < 0 THEN -x ELSE x

\* the later partitions that _deduplicate_partitions takes for duplicates
\* of partition i: same size and category, start equal or within 1%
DuplicatesOf(parts, i, used) ==
    {j \in (i + 1)..Len(parts) :
        /\ j \notin used
        /\ parts[j].size_sectors = parts[i].size_sectors
        /\ parts[j].category = parts[i].category
        /\ \/ Abs(parts[j].start_sector - parts[i].start_sector) = 0
           \/ Abs(parts[j].start_sector - parts[i].start_sector)
                < parts[i].size_sectors \div 100}

\* the record kept for a cluster: the first GPT one, else the first; with
\* the in_mbr and in_gpt flags of the whole cluster
Chosen(parts, cluster) ==
    LET gpt_parts == {j \in cluster : parts[j].in_gpt}
        first(S) == CHOOSE j \in S : \A k \in S : j <= k
        chosen == IF gpt_parts # {} THEN parts[first(gpt_parts)]
                  ELSE parts[first(cluster)]
    IN  [chosen EXCEPT !.in_mbr = \E j \in cluster : parts[j].in_mbr,
                       !.in_gpt = \E j \in cluster : parts[j].in_gpt]

RECURSIVE UniquePartitions(_, _, _)
UniquePartitions(parts, i, used) ==
    IF i > Len(parts)
    THEN <<>>
    ELSE IF i \in used
         THEN UniquePartitions(parts, i + 1, used)
         ELSE <<Chosen(parts, {i} \cup DuplicatesOf(parts, i, used))>>
              \o UniquePartitions(parts, i + 1,
                                  used \cup {i}
                                    \cup DuplicatesOf(parts, i, used))

\* sorted(unique_partitions, key=lambda p: p.start_sector), a stable sort
RECURSIVE SortedByStart(_)
SortedByStart(parts) ==
    IF parts = <<>>
    THEN <<>>
    ELSE LET rest == SortedByStart(Tail(parts))
             before == SelectSeq(rest, LAMBDA p :
                           p.start_sector < Head(parts).start_sector)
             after == SelectSeq(rest, LAMBDA p :
                           p.start_sector >= Head(parts).start_sector)
         IN  before \o <<Head(parts)>> \o after

\* PartitionScanner._deduplicate_partitions: the partition list it leaves
_deduplicate_partitions(parts) ==
    SortedByStart(UniquePartitions(parts, 1, {}))

\* scan_disk on a device whose MBR carries the boot signature
ScanDevice(dev) ==
    scan_disk(_deduplicate_partitions(
                  _parse_mbr(dev.mbr)
                  \o (IF dev.gpt_header THEN _parse_gpt(dev.gpt_entries)
                      ELSE <<>>)),
              dev.total_sectors * SECTOR_SIZE)

\* the names a Linux partition of a layout may carry
LinuxNames == {"l4t", "linux"}

WithLinuxName(layout, name) ==
    [layout EXCEPT !.partitions =
        [i \in DOMAIN @ |-> IF @[i].category = "Linux"
                            THEN [@[i] EXCEPT !.name = name]
                            ELSE @[i]]]

\* layouts to write: sorted by start, no overlap, has_gpt = has_android,
\* at most four MBR entries, Linux and Android only in the GPT of a hybrid
\* layout, FAT32 and emuMMC in both tables
SyntheticLayouts ==
    {WithLinuxName(l, name) : l \in SourceLayouts, name \in LinuxNames}

\* a device that was never written, of the size the layout is made for
BlankDevice(total) ==
    [mbr |-> [signature |-> FALSE, slots |-> [i \in 1..4 |-> EmptySlot]],
     gpt_header |-> FALSE, gpt_entries |-> <<>>, total_sectors |-> total]

\* the table of a card that carried FAT32 and one Android partition
OldCard ==
    scan_disk(CardPartitions(ALIGN_SECTORS, <<>>, <<2048>>, <<>>),
              CardSize(CardPartitions(ALIGN_SECTORS, <<>>, <<2048>>, <<>>)))

\* the device before the write: blank, or still carrying an older table
PriorDevices(total) ==
    {BlankDevice(total),
     write_partition_table(BlankDevice(total), OldCard, 5)}

TableInit ==
    /\ rt_layout \in SyntheticLayouts
    /\ device \in PriorDevices(rt_layout.total_sectors)
    /\ rt_scanned = NoLayout
    /\ rtpc = "start"
    /\ OldIdle /\ CancelIdle /\ GwIdle /\ EmuIdle /\ ProgIdle

\* write_partition_table returns: every write was done
RtWrite ==
    /\ rtpc = "start"
    /\ MbrPackable(rt_layout)
    /\ device' = write_partition_table(device, rt_layout,
                                       Len(TableSectors(rt_layout)))
    /\ rtpc' = "written"
    /\ UNCHANGED <<rt_layout, rt_scanned>>
    /\ UNCHANGED notTableVars

\* a write_sectors call of write_partition_table raises after n writes
RtWriteFail ==
    /\ rtpc = "start"
    /\ \E n \in 0..(Len(TableSectors(rt_layout)) - 1) :
          device' = write_partition_table(device, rt_layout, n)
    /\ rtpc' = "error"
    /\ UNCHANGED <<rt_layout, rt_scanned>>
    /\ UNCHANGED notTableVars

\* scan_disk of the device just written
RtScan ==
    /\ rtpc = "written"
    /\ device.mbr.signature
    /\ rt_scanned' = ScanDevice(device)
    /\ rtpc' = "scanned"
    /\ UNCHANGED <<device, rt_layout>>
    /\ UNCHANGED notTableVars

TableNext == RtWrite \/ RtWriteFail \/ RtScan

TableSpec == TableInit /\ [][TableNext]_vars

\* the fields of a layout that a write followed by a scan is to reproduce
Logical(layout) ==
    [has_gpt |-> layout.has_gpt,
     partitions |-> [i \in DOMAIN layout.partitions |->
        [category |-> layout.partitions[i].category,
         start_sector |-> layout.partitions[i].start_sector,
         size_sectors |-> layout.partitions[i].size_sectors,
         in_mbr |-> layout.partitions[i].in_mbr,
         in_gpt |-> layout.partitions[i].in_gpt]]]

\* C11: writing a layout that satisfies the data-model invariants and then
\* scanning the device gives back the same ordered partitions (category,
\* start_sector, size_sectors, in_mbr, in_gpt) and the same has_gpt.
C11_RoundTrip ==
    rtpc = "scanned" => Logical(rt_scanned) = Logical(rt_layout)

(***************************************************************************)
(* C12: a cancel() that arrives between two stages of a migration run (not *)
(* inside the data copy) aborts the run before the next stage begins: at   *)
(* most the stage that was about to run or running at the call is entered  *)
(* after it, and the run never reaches on_complete.                        *)
(***************************************************************************)
C12_CancelBetweenStages ==
    (eng_cancelled /\ cancel_call.stage # "copy")
        => /\ Len(stage_log) <= cancel_call.stages_run + 1
           /\ stage # "done"

\* the dismount, the boot-sector read or a boot-sector write of the BPB
\* check raised during this run
BpbFixupFailed ==
    \E i \in DOMAIN op_log : /\ op_log[i].kind = "raised"
                             /\ op_log[i].part = "bpb"

(***************************************************************************)
(* C13: when the BPB fixup that follows the format fails, the migration    *)
(* run aborts with an error: CopyPartitions does not start and on_complete *)
(* is not called.                                                          *)
(***************************************************************************)
C13_BpbFailureAborts ==
    BpbFixupFailed
        => /\ ~StageRan("CopyPartitions")
           /\ ~StageRan("Done")
           /\ stage \in {"error", "failed"}

(***************************************************************************)
(* DiskManager.write_sectors: one call.  Every turn of its retry loop is   *)
(* one step.  An attempt ends with a success, with a pywintypes.error      *)
(* (CreateFile, SetFilePointer, WriteFile or FlushFileBuffers failed with  *)
(* a Windows error code), or with another exception (WriteFile returned an *)
(* error code or wrote fewer bytes).                                       *)
(***************************************************************************)
MAX_RETRIES == 3

\* the two codes write_sectors names in its log messages
ERROR_ACCESS_DENIED == 5
ERROR_SHARING_VIOLATION == 32

\* the Windows error codes an attempt may fail with: the two above, 33
\* (lock violation) and 1117 (I/O device error)
WinErrors == {ERROR_ACCESS_DENIED, ERROR_SHARING_VIOLATION, 33, 1117}

\* one attempt: its number, whether _prepare_disk_for_write ran before the
\* open, and how it ended: "ok", "winerror" with its code, or "io_error"
Attempt(n, kind, code) ==
    [attempt |-> n, prepared |-> (n = 0 /\ ~ws_skip_prepare),
     outcome |-> [kind |-> kind, code |-> code]]

GwInit ==
    /\ ws_skip_prepare \in BOOLEAN
    /\ ws_data_len \in {SECTOR_SIZE, 2 * SECTOR_SIZE, SECTOR_SIZE + 1}
    /\ ws_attempts = <<>>
    /\ ws_pc = "loop"
    /\ OldIdle /\ TableIdle /\ CancelIdle /\ EmuIdle /\ ProgIdle

\* if len(data) % SECTOR_SIZE != 0: raise ValueError, before any attempt
GwReject ==
    /\ ws_pc = "loop"
    /\ ws_attempts = <<>>
    /\ ws_data_len % SECTOR_SIZE # 0
    /\ ws_pc' = "raised"
    /\ UNCHANGED <<ws_skip_prepare, ws_data_len, ws_attempts>>
    /\ UNCHANGED notGwVars

\* an attempt writes every byte: return
GwAttemptOk ==
    /\ ws_pc = "loop"
    /\ ws_data_len % SECTOR_SIZE = 0
    /\ Len(ws_attempts) < MAX_RETRIES
    /\ ws_attempts' = Append(ws_attempts, Attempt(Len(ws_attempts), "ok", 0))
    /\ ws_pc' = "returned"
    /\ UNCHANGED <<ws_skip_prepare, ws_data_len>>
    /\ UNCHANGED notGwVars

\* except pywintypes.error: whatever the code, raise IOError on the last
\* attempt, sleep RETRY_DELAY and go round the loop otherwise
GwAttemptWinError(code) ==
    /\ ws_pc = "loop"
    /\ ws_data_len % SECTOR_SIZE = 0
    /\ Len(ws_attempts) < MAX_RETRIES
    /\ ws_attempts' = Append(ws_attempts, Attempt(Len(ws_attempts), "winerror", code))
    /\ ws_pc' = IF Len(ws_attempts) = MAX_RETRIES - 1 THEN "raised"
                ELSE "loop"
    /\ UNCHANGED <<ws_skip_prepare, ws_data_len>>
    /\ UNCHANGED notGwVars

\* except Exception: raise IOError at once
GwAttemptOtherError ==
    /\ ws_pc = "loop"
    /\ ws_data_len % SECTOR_SIZE = 0
    /\ Len(ws_attempts) < MAX_RETRIES
    /\ ws_attempts' = Append(ws_attempts,
                             Attempt(Len(ws_attempts), "io_error", 0))
    /\ ws_pc' = "raised"
    /\ UNCHANGED <<ws_skip_prepare, ws_data_len>>
    /\ UNCHANGED notGwVars

GwNext ==
    \/ GwReject
    \/ GwAttemptOk
    \/ \E code \in WinErrors : GwAttemptWinError(code)
    \/ GwAttemptOtherError

GwSpec == GwInit /\ [][GwNext]_vars

\* a failure classified as sharing/locking: the host still holds the volume
SharingOrLocking(outcome) ==
    /\ outcome.kind = "winerror"
    /\ outcome.code \in {ERROR_SHARING_VIOLATION, 33}

(***************************************************************************)
(* C14: a write is attempted at most 3 times; an attempt after the first   *)
(* is made only when the attempt before it failed with a sharing/locking   *)
(* error; an I/O error that is neither sharing/locking nor access-denied   *)
(* ends the write after the first attempt.                                 *)
(***************************************************************************)
C14_WriteRetryPolicy ==
    /\ Len(ws_attempts) <= 3
    /\ \A i \in DOMAIN ws_attempts :
          i > 1 => SharingOrLocking(ws_attempts[i - 1].outcome)
    /\ (/\ ws_attempts # <<>>
        /\ ws_attempts[1].outcome.kind # "ok"
        /\ ~SharingOrLocking(ws_attempts[1].outcome)
        /\ ws_attempts[1].outcome.code # ERROR_ACCESS_DENIED)
           => (Len(ws_attempts) = 1 /\ ws_pc = "raised")

(***************************************************************************)
(* emuMMC post-processing of a migration (migration_engine.py 1363-1839). *)
(* Stage 5 of run() calls _update_emummc_config when migrate_emummc is    *)
(* set and the source has an emuMMC partition; it first calls             *)
(* _write_emummc_efi_signature, which detects where the inner GPT header  *)
(* of the emuMMC lies, and then writes two files on the target FAT32.     *)
(***************************************************************************)
OFFSET_FULL == 49153
OFFSET_RESIZED == 16385
OFFSET_SHIFTED == 81921

\* what an emuMMC partition can hold inside: the offsets at which a sector
\* starts with "EFI PART", and the offsets of sectors ending in 55 AA
EmuInners ==
    {[kind |-> "full", efi |-> {OFFSET_FULL}, mbr |-> {49152}],
     [kind |-> "resized", efi |-> {OFFSET_RESIZED}, mbr |-> {16384}],
     [kind |-> "shifted", efi |-> {OFFSET_SHIFTED}, mbr |-> {81920}],
     [kind |-> "mbr_only", efi |-> {}, mbr |-> {49152}],
     [kind |-> "blank", efi |-> {}, mbr |-> {}]}

\* the variant that skips the search and returns the default
_detect_emummc_offset_default(inner) == OFFSET_FULL

\* _detect_emummc_offset_by_mbr: 0x14000 is tried first, then 0xC000; the
\* default is 0xC001
_detect_emummc_offset_by_mbr(inner) ==
    IF 81920 \in inner.mbr THEN OFFSET_SHIFTED ELSE OFFSET_FULL

\* _write_emummc_efi_signature: the value it returns.  src_ok is whether
\* the reads of the source succeed, tgt_ok whether the accesses to the
\* target do; the target emuMMC holds the copy of the source's sectors.
_write_emummc_efi_signature(inner, src_ok, tgt_ok) ==
    LET found == src_ok /\ (OFFSET_FULL \in inner.efi
                               \/ OFFSET_RESIZED \in inner.efi)
        first == IF ~src_ok THEN OFFSET_FULL
                 ELSE IF OFFSET_FULL \in inner.efi THEN OFFSET_FULL
                 ELSE IF OFFSET_RESIZED \in inner.efi THEN OFFSET_RESIZED
                 ELSE _detect_emummc_offset_by_mbr(inner)
        alternate == IF first = OFFSET_FULL THEN OFFSET_RESIZED
                     ELSE OFFSET_FULL
    IN  IF ~tgt_ok THEN OFFSET_FULL
        ELSE IF found THEN first
        ELSE IF first \in inner.efi THEN first
        ELSE IF alternate \in inner.efi THEN alternate
        ELSE first

\* the variant in which the detected inner offset is added instead
emummc_ini_sector_detected(mbr_partition_start, detected) ==
    mbr_partition_start + detected

\* boot0_start_sector = mbr_partition_start + HEKATE_BOOT0_OFFSET; the
\* detected offset does not enter the value
emummc_ini_sector(mbr_partition_start, detected) ==
    mbr_partition_start + HEKATE_BOOT0_OFFSET

\* the files copied from the source card's FAT32: none, or the
\* configuration of the source emuMMC
SourceConfigs(layout) ==
    LET v == get_emummc_partitions(layout)[1].start_sector
                 + HEKATE_BOOT0_OFFSET
    IN  {NoFiles, ConfigFiles(to_bytes(v), HexDigits(v))}

EmuOptionSets == {o \in OptionSets : o.migrate_emummc}

\* a target of the largest size and one that is not a multiple of 1 MiB
EmuTargetSizes ==
    {32 * MaxTargetUnits * 1024 * 1024, 40 * 1024 * 1024 + 1000}

EmuSourceLayouts == {l \in SourceLayouts : l.has_emummc}

\* run() has copied the partitions and enters stage 5
EmuInit ==
    /\ source_layout \in EmuSourceLayouts
    /\ options \in EmuOptionSets
    /\ target_size_bytes \in EmuTargetSizes
    /\ target_layout = calculate_target_layout(source_layout,
                                               target_size_bytes, options)
    /\ ppc = "returned"
    /\ emu_inner \in EmuInners
    /\ detected_offset = 0
    /\ emummc_files \in SourceConfigs(source_layout)
    /\ emupc = "start"
    /\ CopyIdle /\ GuiIdle /\ RunIdle /\ CleanIdle
    /\ TableIdle /\ CancelIdle /\ GwIdle /\ ProgIdle

notEmuVars == <<oldVars, tableVars, cancelVars, gwVars, progVars>>

\* detected_offset = self._write_emummc_efi_signature(target_emummc[0])
EmuWriteSignature ==
    /\ emupc = "start"
    /\ \E src_ok \in BOOLEAN, tgt_ok \in BOOLEAN :
          detected_offset' =
              _write_emummc_efi_signature(emu_inner, src_ok, tgt_ok)
    /\ emupc' = "detected"
    /\ UNCHANGED <<emu_inner, emummc_files>>
    /\ UNCHANGED notEmuVars

\* the target FAT32 has no drive letter: logged, nothing is written
EmuNotMounted ==
    /\ emupc = "detected"
    /\ emupc' = "not_mounted"
    /\ UNCHANGED <<emu_inner, detected_offset, emummc_files>>
    /\ UNCHANGED notEmuVars

\* both files are written
EmuConfigCreated ==
    /\ emupc = "detected"
    /\ LET v == emummc_ini_sector(
                    get_emummc_partitions(target_layout)[1].start_sector,
                    detected_offset)
       IN  /\ v >= 0
           /\ emummc_files' = ConfigFiles(to_bytes(v), HexDigits(v))
    /\ emupc' = "created"
    /\ UNCHANGED <<emu_inner, detected_offset>>
    /\ UNCHANGED notEmuVars

\* except Exception: logged.  The exception comes before raw_based is
\* opened, or from the writing of emummc.ini after raw_based was written
EmuConfigError ==
    /\ emupc = "detected"
    /\ LET v == emummc_ini_sector(
                    get_emummc_partitions(target_layout)[1].start_sector,
                    detected_offset)
           old == IF emummc_files = NoFiles THEN <<>>
                  ELSE emummc_files.sector
       IN  \/ UNCHANGED emummc_files
           \/ emummc_files' = ConfigFiles(to_bytes(v), old)
    /\ emupc' = "error"
    /\ UNCHANGED <<emu_inner, detected_offset>>
    /\ UNCHANGED notEmuVars

EmuNext ==
    \/ EmuWriteSignature \/ EmuNotMounted \/ EmuConfigCreated
    \/ EmuConfigError

EmuSpec == EmuInit /\ [][EmuNext]_vars

C16_CleanupConfigSector ==
    emupc = "created" =>
        LET start == get_emummc_partitions(
                         eng_plan.target_layout)[1].start_sector
        IN  /\ Len(emummc_files.raw_based) = 4
            /\ from_bytes(emummc_files.raw_based) = start + 32768
            /\ ParseHex(emummc_files.sector) = start + 32768

\* what the cleanup emits instead: the start sector plus 0x17000
C16_CleanupWritesOtherOffset ==
    emupc = "created" =>
        LET start == get_emummc_partitions(
                         eng_plan.target_layout)[1].start_sector
        IN  /\ from_bytes(emummc_files.raw_based) = start + 94208
            /\ ParseHex(emummc_files.sector) = start + 94208

(***************************************************************************)
(* The progress reports of a migration run.  A percent is a Python float;  *)
(* it is kept here as an exact fraction num / den.                         *)
(***************************************************************************)
MaxParts == 3
MaxFiles == 2
ClearChunks == 2

Frac(num, den) == [num |-> num, den |-> den]

FracAdd(a, b) == Frac(a.num * b.den + b.num * a.den, a.den * b.den)

Whole(n) == Frac(n, 1)

\* 0 <= percent <= 100
InRange(p) == 0 <= p.num /\ p.num <= 100 * p.den

\* the category sequences of source layouts with at most one FAT32
\* partition, at any position
PartSequences ==
    LET Cats == {"FAT32", "Linux", "Android", "emuMMC"}
        Seqs == UNION {[1..n -> Cats] : n \in 1..MaxParts}
    IN  {s \in Seqs :
            Cardinality({i \in DOMAIN s : s[i] = "FAT32"}) <= 1}

\* run and _clear_target_disk, _write_partition_tables, run again and the
\* first report of _copy_partitions: the percents reported before the loop
BeforeCopy ==
    <<Whole(0), Whole(1), Whole(3), Whole(5)>>
        \o [k \in 1..ClearChunks |->
               FracAdd(Whole(5), Frac(5 * k, ClearChunks))]
        \o <<Whole(10), Whole(15), Whole(8), Whole(15)>>

\* _copy_partitions: base_progress + partition_progress, where
\* partition_progress = (idx / total_partitions) * 70, idx counted from 0
PartitionBase(idx, total_partitions) ==
    FracAdd(Whole(15), Frac(70 * (idx - 1), total_partitions))

\* writer_thread and _copy_partition_data_single:
\* progress = base_progress + (percent / 100) * (70 / len(partitions))
\* with percent = (sectors_copied / total_sectors) * 100
RawProgress(base_progress, copied, total, nparts) ==
    FracAdd(base_progress, Frac(70 * copied, total * nparts))

\* _copy_fat32_files: base_progress, + 5, + 8, + 10
Fat32Steps == <<0, 5, 8, 10>>

\* _copy_files_simple is called with base_progress + 10 and reports
\* base_progress + 10 + file_progress, file_progress = copied / total * 75
FileProgress(base_progress, files_copied, total_files) ==
    FracAdd(FracAdd(base_progress, Whole(20)),
            Frac(75 * files_copied, total_files))

\* _copy_files_simple, called with base_progress + 10, at its end:
\* base_progress + 85
FilesDone(base_progress) == FracAdd(base_progress, Whole(10 + 85))

\* _update_emummc_config and _write_emummc_efi_signature: 95, 95.5, 96
PostReports == <<Whole(95), Frac(191, 2), Whole(96)>>

ProgInit ==
    /\ pg_parts \in PartSequences
    /\ pg_idx = 0
    /\ pg_pc = "start"
    /\ pg_sub = 0
    /\ pg_percent = NoReport
    /\ OldIdle /\ TableIdle /\ CancelIdle /\ GwIdle /\ EmuIdle

notProgVars == <<oldVars, tableVars, cancelVars, gwVars, emuVars>>

\* the reports made before the loop of _copy_partitions
ProgMilestone ==
    /\ pg_pc = "start"
    /\ pg_percent' = BeforeCopy[pg_sub + 1]
    /\ IF pg_sub + 1 = Len(BeforeCopy)
       THEN pg_pc' = "copy" /\ pg_idx' = 1 /\ pg_sub' = 0
       ELSE pg_sub' = pg_sub + 1 /\ UNCHANGED <<pg_pc, pg_idx>>
    /\ UNCHANGED pg_parts
    /\ UNCHANGED notProgVars

\* a partition that is not migrated, or holds no sector: no report
ProgSkipPartition ==
    /\ pg_pc = "copy"
    /\ pg_idx <= Len(pg_parts)
    /\ pg_parts[pg_idx] # "FAT32"
    /\ pg_sub = 0
    /\ pg_idx' = pg_idx + 1
    /\ UNCHANGED <<pg_parts, pg_pc, pg_sub, pg_percent>>
    /\ UNCHANGED notProgVars

\* a report of the raw copy, after a chunk was written
ProgRawReport ==
    /\ pg_pc = "copy"
    /\ pg_idx <= Len(pg_parts)
    /\ pg_parts[pg_idx] # "FAT32"
    /\ \E total \in 1..MaxSectors :
          \E copied \in 1..total :
             pg_percent' = RawProgress(
                 PartitionBase(pg_idx, Len(pg_parts)), copied, total,
                 Len(pg_parts))
    /\ pg_sub' = 1
    /\ UNCHANGED <<pg_parts, pg_idx, pg_pc>>
    /\ UNCHANGED notProgVars

\* the raw copy of the partition is over
ProgRawEnd ==
    /\ pg_pc = "copy"
    /\ pg_idx <= Len(pg_parts)
    /\ pg_parts[pg_idx] # "FAT32"
    /\ pg_sub = 1
    /\ pg_idx' = pg_idx + 1
    /\ pg_sub' = 0
    /\ UNCHANGED <<pg_parts, pg_pc, pg_percent>>
    /\ UNCHANGED notProgVars

\* the four reports of _copy_fat32_files
ProgFat32Step ==
    /\ pg_pc = "copy"
    /\ pg_idx <= Len(pg_parts)
    /\ pg_parts[pg_idx] = "FAT32"
    /\ pg_sub < Len(Fat32Steps)
    /\ pg_percent' = FracAdd(PartitionBase(pg_idx, Len(pg_parts)),
                             Whole(Fat32Steps[pg_sub + 1]))
    /\ pg_sub' = pg_sub + 1
    /\ UNCHANGED <<pg_parts, pg_idx, pg_pc>>
    /\ UNCHANGED notProgVars

\* a report of _copy_files_simple after a file was copied
ProgFilesCopied ==
    /\ pg_pc = "copy"
    /\ pg_idx <= Len(pg_parts)
    /\ pg_parts[pg_idx] = "FAT32"
    /\ pg_sub = Len(Fat32Steps)
    /\ \E total_files \in 1..MaxFiles :
          \E files_copied \in 1..total_files :
             pg_percent' = FileProgress(
                 PartitionBase(pg_idx, Len(pg_parts)), files_copied,
                 total_files)
    /\ UNCHANGED <<pg_parts, pg_idx, pg_pc, pg_sub>>
    /\ UNCHANGED notProgVars

\* the last report of _copy_files_simple
ProgFat32End ==
    /\ pg_pc = "copy"
    /\ pg_idx <= Len(pg_parts)
    /\ pg_parts[pg_idx] = "FAT32"
    /\ pg_sub = Len(Fat32Steps)
    /\ pg_percent' = FilesDone(PartitionBase(pg_idx, Len(pg_parts)))
    /\ pg_idx' = pg_idx + 1
    /\ pg_sub' = 0
    /\ UNCHANGED <<pg_parts, pg_pc>>
    /\ UNCHANGED notProgVars

\* the loop is over; Stage 5 runs when an emuMMC partition is migrated
ProgCopyEnd ==
    /\ pg_pc = "copy"
    /\ pg_idx > Len(pg_parts)
    /\ \/ /\ \E i \in DOMAIN pg_parts : pg_parts[i] = "emuMMC"
          /\ pg_pc' = "post"
       \/ pg_pc' = "done"
    /\ UNCHANGED <<pg_parts, pg_idx, pg_sub, pg_percent>>
    /\ UNCHANGED notProgVars

\* the reports of Stage 5; the last one is 97 or 99
ProgPost ==
    /\ pg_pc = "post"
    /\ IF pg_sub < Len(PostReports)
       THEN /\ pg_percent' = PostReports[pg_sub + 1]
            /\ pg_sub' = pg_sub + 1
            /\ UNCHANGED pg_pc
       ELSE /\ \E last \in {97, 99} : pg_percent' = Whole(last)
            /\ pg_pc' = "done"
            /\ UNCHANGED pg_sub
    /\ UNCHANGED <<pg_parts, pg_idx>>
    /\ UNCHANGED notProgVars

ProgNext ==
    \/ ProgMilestone \/ ProgSkipPartition \/ ProgRawReport \/ ProgRawEnd
    \/ ProgFat32Step \/ ProgFilesCopied \/ ProgFat32End \/ ProgCopyEnd
    \/ ProgPost

ProgSpec == ProgInit /\ [][ProgNext]_vars

\* C17: every progress report made during a migration run carries an
\* overall percent within 0..100, for any number of source partitions and
\* any position of the FAT32 partition among them
C17_PercentInRange == pg_percent # NoReport => InRange(pg_percent)

(***************************************************************************)
(* De-duplication of the partitions parsed from a card whose two tables    *)
(* were written by another tool: up to two entries in the MBR and up to    *)
(* two in the GPT, FAT32 or emuMMC, of 150 or 300 sectors, at starts that  *)
(* lie 0, 1, 2 or 3 sectors apart.                                         *)
(***************************************************************************)
DedupSizes == {150, 300}
DedupStarts == {2048, 2049, 2051}
DedupCategories == {"FAT32", "emuMMC"}

MbrType(category) == IF category = "FAT32" THEN 12 ELSE 224

\* the entries one table may hold: none, one or two
DedupEntries ==
    LET One == [category : DedupCategories, start : DedupStarts,
                size : DedupSizes]
    IN  {<<>>} \cup {<<e>> : e \in One} \cup {<<e, f>> : e, f \in One}

DedupDevice(mbr_entries, gpt_entries) ==
    [mbr |-> [signature |-> TRUE,
              slots |-> [i \in 1..4 |->
                  IF i <= Len(mbr_entries)
                  THEN [type |-> MbrType(mbr_entries[i].category),
                        start |-> mbr_entries[i].start,
                        size |-> mbr_entries[i].size]
                  ELSE EmptySlot]],
     gpt_header |-> TRUE,
     gpt_entries |-> [i \in 1..Len(gpt_entries) |->
                  [type_guid |-> TypeGuid(gpt_entries[i].category),
                   lba_start |-> gpt_entries[i].start,
                   lba_end |-> gpt_entries[i].start
                                 + gpt_entries[i].size - 1,
                   name |-> IF gpt_entries[i].category = "FAT32"
                            THEN "hos_data" ELSE "emummc"]],
     total_sectors |-> 4096]

\* what scan_disk hands to _deduplicate_partitions: the MBR partitions,
\* then the GPT partitions
Parsed(dev) ==
    _parse_mbr(dev.mbr)
    \o (IF dev.gpt_header THEN _parse_gpt(dev.gpt_entries) ELSE <<>>)

DedupInit ==
    /\ \E m \in DedupEntries, g \in DedupEntries :
          device = DedupDevice(m, g)
    /\ rt_layout = NoLayout
    /\ rt_scanned = NoLayout
    /\ rtpc = "parsed"
    /\ OldIdle /\ CancelIdle /\ GwIdle /\ EmuIdle /\ ProgIdle

\* scan_disk: parse both tables, then _deduplicate_partitions
DedupScan ==
    /\ rtpc = "parsed"
    /\ rt_scanned' = ScanDevice(device)
    /\ rtpc' = "deduplicated"
    /\ UNCHANGED <<device, rt_layout>>
    /\ UNCHANGED notTableVars

DedupNext == DedupScan

DedupSpec == DedupInit /\ [][DedupNext]_vars

\* two partitions are duplicates: same category, same size_sectors, starts
\* less than 1% of size_sectors apart
IsDuplicate(p, q) ==
    /\ p.category = q.category
    /\ p.size_sectors = q.size_sectors
    /\ 100 * Abs(p.start_sector - q.start_sector) < p.size_sectors

\* the duplicate cluster that holds the partitions S
RECURSIVE Cluster(_, _)
Cluster(parts, S) ==
    LET T == S \cup {j \in DOMAIN parts :
                        \E i \in S : IsDuplicate(parts[i], parts[j])}
    IN  IF T = S THEN S ELSE Cluster(parts, T)

Clusters(parts) == {Cluster(parts, {i}) : i \in DOMAIN parts}

\* record r is partition p up to the two table flags
SameRecord(r, p) ==
    [r EXCEPT !.in_mbr = FALSE, !.in_gpt = FALSE]
        = [p EXCEPT !.in_mbr = FALSE, !.in_gpt = FALSE]

\* the scan result holds exactly one record of cluster c: a GPT one when
\* the cluster has one, flagged with the union over the cluster
KeptOnce(parts, unique, c) ==
    /\ Cardinality({k \in DOMAIN unique :
                       \E i \in c : SameRecord(unique[k], parts[i])}) = 1
    /\ \E k \in DOMAIN unique, i \in c :
          /\ SameRecord(unique[k], parts[i])
          /\ (\E j \in c : parts[j].in_gpt) => parts[i].in_gpt
          /\ unique[k].in_mbr = (\E j \in c : parts[j].in_mbr)
          /\ unique[k].in_gpt = (\E j \in c : parts[j].in_gpt)

IsSortedByStart(unique) ==
    \A k \in 1..(Len(unique) - 1) :
        unique[k].start_sector <= unique[k + 1].start_sector

(***************************************************************************)
(* C24: the scanner treats two parsed partitions as duplicates exactly     *)
(* when they have the same category and size_sectors and their starts are  *)
(* less than 1% of size_sectors apart; every duplicate cluster is reduced  *)
(* to one record, the GPT one when there is one, whose in_mbr and in_gpt   *)
(* are the union over the cluster; the result is sorted by start_sector.   *)
(***************************************************************************)
C24_DuplicatesMerged ==
    rtpc = "deduplicated"
        => /\ Len(rt_scanned.partitions)
                = Cardinality(Clusters(Parsed(device)))
           /\ \A c \in Clusters(Parsed(device)) :
                 KeptOnce(Parsed(device), rt_scanned.partitions, c)
           /\ IsSortedByStart(rt_scanned.partitions)

\* the same with one entry in each table: no cluster of three
C24_OnePerTable ==
    (Len(Parsed(device)) = 2 /\ Parsed(device)[2].in_gpt
       /\ Parsed(device)[1].in_mbr)
        => C24_DuplicatesMerged

\* the part of C24 that does not depend on which partitions are merged
C24_ResultSorted ==
    rtpc = "deduplicated" => IsSortedByStart(rt_scanned.partitions)

(***************************************************************************)
(* The offset detection of _write_emummc_efi_signature on every emuMMC     *)
(* image: any set of the three inner GPT offsets carrying "EFI PART" and   *)
(* any set of the three inner MBR offsets carrying 55 AA.                  *)
(***************************************************************************)
DetectInners ==
    [kind : {"image"},
     efi : SUBSET {OFFSET_FULL, OFFSET_RESIZED, OFFSET_SHIFTED},
     mbr : SUBSET {49152, 16384, 81920}]

\* a card with FAT32 and emuMMC only, every category selected
DetectInit ==
    /\ source_layout \in {l \in EmuSourceLayouts :
                              ~l.has_linux /\ ~l.has_android}
    /\ options \in {o \in EmuOptionSets :
                       o.migrate_linux /\ o.migrate_android}
    /\ target_size_bytes = 32 * MaxTargetUnits * 1024 * 1024
    /\ target_layout = calculate_target_layout(source_layout,
                                               target_size_bytes, options)
    /\ ppc = "returned"
    /\ emu_inner \in DetectInners
    /\ detected_offset = 0
    /\ emummc_files = NoFiles
    /\ emupc = "start"
    /\ CopyIdle /\ GuiIdle /\ RunIdle /\ CleanIdle
    /\ TableIdle /\ CancelIdle /\ GwIdle /\ ProgIdle

\* _write_emummc_efi_signature returns; emupc tells whether a read of the
\* source or an access to the target raised on the way
DetectOffset ==
    /\ emupc = "start"
    /\ \E src_ok \in BOOLEAN, tgt_ok \in BOOLEAN :
          /\ detected_offset' =
                 _write_emummc_efi_signature(emu_inner, src_ok, tgt_ok)
          /\ emupc' = IF src_ok /\ tgt_ok THEN "detected"
                      ELSE "detected_after_io_error"
    /\ UNCHANGED <<emu_inner, emummc_files>>
    /\ UNCHANGED notEmuVars

DetectNext == DetectOffset

DetectSpec == DetectInit /\ [][DetectNext]_vars

C25_WitnessResized ==
    /\ emupc = "detected"
    /\ emu_inner.efi = {OFFSET_RESIZED}
    /\ detected_offset = OFFSET_RESIZED

\* C25 without the restriction to runs free of I/O errors
C25_DetectedOffsetAlways ==
    emupc \in {"detected", "detected_after_io_error"} =>
        /\ OFFSET_FULL \in emu_inner.efi => detected_offset = OFFSET_FULL
        /\ (OFFSET_RESIZED \in emu_inner.efi
              /\ OFFSET_FULL \notin emu_inner.efi)
               => detected_offset = OFFSET_RESIZED

(***************************************************************************)
(* C26: whenever layout.has_gpt is true, the MBR the writer emits holds    *)
(* the GPT-protective entry in its fourth slot (slot index 3): type 0xEE,  *)
(* start sector 1, size total_sectors - 1, whatever the number of          *)
(* MBR-visible partitions written before it.                               *)
(***************************************************************************)
C26_ProtectiveInFourthSlot ==
    (rtpc = "written" /\ rt_layout.has_gpt)
        => device.mbr.slots[4] = [type |-> 238, start |-> 1,
                                  size |-> rt_layout.total_sectors - 1]

\* what the writer does: the protective entry follows the last MBR-visible
\* partition, and is left out when four partitions fill the MBR
C26_ProtectiveInNextSlot ==
    (rtpc = "written" /\ rt_layout.has_gpt)
        => LET n == Len(SelectSeq(rt_layout.partitions,
                                  LAMBDA p : p.in_mbr))
           IN  /\ n < 4 => device.mbr.slots[n + 1]
                              = [type |-> 238, start |-> 1,
                                 size |-> rt_layout.total_sectors - 1]
               /\ \A i \in 1..4 : i # n + 1 => device.mbr.slots[i].type # 238

(***************************************************************************)
(* Cards with three emuMMC partitions.  The MBR has room for FAT32 and     *)
(* three emuMMC; a card that also holds Linux or Android carries them in   *)
(* its GPT, where _parse_gpt takes every entry with a type GUID.           *)
(***************************************************************************)
ThreeEmummc(fat, linux, androids, e) ==
    LET lba == EndOf(<<e, e>>,
                     EndOf(androids,
                           EndOf(linux, EndOf(<<fat>>, ALIGN_SECTORS))))
        parts == CardPartitions(fat, linux, androids, <<e, e>>)
                 \o OnDisk(<<e>>, <<"emummc3">>, "emuMMC", lba,
                           linux = <<>> /\ androids = <<>>,
                           linux # <<>> \/ androids # <<>>)
    IN  scan_disk(parts, CardSize(parts))

ThreeEmummcLayouts ==
    {ThreeEmummc(fat, linux, androids, e) :
        fat \in FatSizes,
        linux \in SizeSeqs(PartSizes, 1),
        androids \in SizeSeqs(AndroidSizes, MaxAndroid),
        e \in {2048, ALIGN_SECTORS}}

ThreeInit ==
    /\ source_layout \in ThreeEmummcLayouts
    /\ options \in OptionSets
    /\ target_size_bytes = 32 * MaxTargetUnits * 1024 * 1024
    /\ target_layout = NoLayout
    /\ ppc = "call"
    /\ CopyIdle /\ GuiIdle /\ RunIdle /\ CleanIdle /\ MoreIdle

ThreeSpec == ThreeInit /\ [][PlanNext]_vars

\* the MBR entries a layout asks for: its in_mbr partitions and, with a
\* GPT, the protective entry
MbrEntriesWanted(layout) ==
    Len(SelectSeq(layout.partitions, LAMBDA p : p.in_mbr))
        + (IF layout.has_gpt THEN 1 ELSE 0)

\* _create_mbr places every in_mbr partition and, with a GPT, the
\* protective entry
NothingDropped(layout) ==
    LET slots == _create_mbr(layout).slots
    IN  /\ \A i \in DOMAIN layout.partitions :
              layout.partitions[i].in_mbr =>
                  \E s \in 1..4 :
                      /\ slots[s].type = layout.partitions[i].type_id
                      /\ slots[s].start = layout.partitions[i].start_sector
                      /\ slots[s].size = layout.partitions[i].size_sectors
        /\ layout.has_gpt => \E s \in 1..4 : slots[s].type = 238

(***************************************************************************)
(* C27: for every layout the planner produces from a scanned source, the   *)
(* number of in_mbr partitions plus one protective entry when has_gpt is   *)
(* at most four, so the writer places every in_mbr partition and, when     *)
(* has_gpt, the protective entry in the MBR without dropping any.          *)
(***************************************************************************)
C27_MbrEntriesFit ==
    (Planned /\ IsLayout(target_layout))
        => /\ MbrEntriesWanted(target_layout) <= 4
           /\ NothingDropped(target_layout)

\* the parts write_partition_table has written so far in this run, in the
\* order of the calls of write_sectors
TableWritesIssued ==
    LET w == SelectSeq(op_log, LAMBDA o : /\ o.kind = "write"
                                          /\ o.stage = "WriteTable")
    IN  [i \in DOMAIN w |-> w[i].part]

(***************************************************************************)
(* C28: write_partition_table writes the primary structures in the order   *)
(* MBR first, then the partition-entry array at sectors 2-33, then the     *)
(* primary GPT header at sector 1 last: the primary header is never on     *)
(* disk before the entries it describes; when has_gpt is false only        *)
(* sector 0 is written.                                                    *)
(***************************************************************************)
C28_HeaderAfterEntries ==
    LET w == TableWritesIssued
    IN  /\ w # <<>> => w[1] = "mbr"
        /\ \A j \in DOMAIN w :
              w[j] = "main_header" => \E i \in 1..(j - 1) : w[i] = "entries"
        /\ (w # <<>> /\ ~eng_plan.target_layout.has_gpt) => w = <<"mbr">>

\* the parts of C28 about the MBR: it is written first, and alone when the
\* layout has no GPT
C28_MbrFirstAndAlone ==
    LET w == TableWritesIssued
    IN  /\ w # <<>> => w[1] = "mbr"
        /\ (w # <<>> /\ ~eng_plan.target_layout.has_gpt) => w = <<"mbr">>

\* a run in which the write of the entries failed after the primary header
\* was written
C28_HeaderWithoutEntries ==
    /\ TableWritesIssued = <<"mbr", "main_header">>
    /\ stage \in {"error", "failed"}

(***************************************************************************)
(* The GPT sectors as bytes.  The entry array has 128 slots; an entry is   *)
(* kept to its first EntryLen bytes of content: the last byte of its type  *)
(* GUID and the low bytes of its first LBA, little endian.  zlib.crc32 is  *)
(* the reflected CRC-32 (polynomial 0xEDB88320, register preset to and     *)
(* finally inverted from all ones); its value is the set of its one bits.  *)
(***************************************************************************)
GPT_SLOTS == 128
EntryLen == 4

Bit(n, i) == (n \div (2 ^ i)) % 2 = 1

\* the register is the tuple of its 32 bits, bit 0 first; one step shifts
\* bit 0 out and, when it was set, adds the polynomial 0xEDB88320 (bits 5,
\* 8, 9, 15, 19, 20, 21, 23, 24, 26, 27, 29, 30, 31)
CrcShift(r) ==
    <<r[2], r[3], r[4], r[5], r[6], (r[7] # r[1]), r[8], r[9],
      (r[10] # r[1]), (r[11] # r[1]), r[12], r[13], r[14], r[15], r[16],
      (r[17] # r[1]), r[18], r[19], r[20], (r[21] # r[1]), (r[22] # r[1]),
      (r[23] # r[1]), r[24], (r[25] # r[1]), (r[26] # r[1]), r[27],
      (r[28] # r[1]), (r[29] # r[1]), r[30], (r[31] # r[1]),
      (r[32] # r[1]), r[1]>>

\* the next byte is added to the low eight bits
CrcXorByte(r, b) ==
    <<(r[1] # Bit(b, 0)), (r[2] # Bit(b, 1)), (r[3] # Bit(b, 2)),
      (r[4] # Bit(b, 3)), (r[5] # Bit(b, 4)), (r[6] # Bit(b, 5)),
      (r[7] # Bit(b, 6)), (r[8] # Bit(b, 7)), r[9], r[10], r[11], r[12],
      r[13], r[14], r[15], r[16], r[17], r[18], r[19], r[20], r[21], r[22],
      r[23], r[24], r[25], r[26], r[27], r[28], r[29], r[30], r[31], r[32]>>

CrcByte(r, b) ==
    CrcShift(CrcShift(CrcShift(CrcShift(
        CrcShift(CrcShift(CrcShift(CrcShift(CrcXorByte(r, b)))))))))

\* the register after the bytes data[lo..hi], the bytes taken in order: the
\* first half is worked off before the second half is entered
RECURSIVE CrcUpdate(_, _, _, _)
CrcUpdate(r, data, lo, hi) ==
    IF lo > hi THEN r
    ELSE IF lo = hi THEN CrcByte(r, data[lo])
    ELSE LET half == CrcUpdate(r, data, lo, (lo + hi) \div 2)
         IN  IF Len(half) = 32
             THEN CrcUpdate(half, data, ((lo + hi) \div 2) + 1, hi)
             ELSE half

crc32(data) ==
    LET r == CrcUpdate([i \in 1..32 |-> TRUE], data, 1, Len(data))
    IN  {i \in 0..31 : ~r[i + 1]}

\* the last byte of the type GUID written for a category
TypeByte(category) ==
    CASE category = "FAT32" -> 199
      [] category \in {"Linux", "Android"} -> 228
      [] category = "emuMMC" -> 67
      [] OTHER -> 0

EntryBytes(partition) ==
    [k \in 1..EntryLen |->
        IF k = 1 THEN TypeByte(partition.category)
        ELSE (partition.start_sector \div (256 ^ (k - 2))) % 256]

\* PartitionWriter._create_gpt as bytes: the dictionary it returns, with
\* num_entries and entries_crc32 of the two headers
gpt_data(layout) ==
    LET gpt_partitions == SelectSeq(layout.partitions, LAMBDA p : p.in_gpt)
        gpt_idx == Min(Len(gpt_partitions), GPT_SLOTS)
        gpt_entries ==
            [k \in 1..(GPT_SLOTS * EntryLen) |->
                IF ((k - 1) \div EntryLen) + 1 <= gpt_idx
                THEN EntryBytes(gpt_partitions[((k - 1) \div EntryLen) + 1])
                         [((k - 1) % EntryLen) + 1]
                ELSE 0]
        entries_data == SubSeq(gpt_entries, 1, gpt_idx * EntryLen)
        entries_crc == crc32(entries_data)
    IN  [main_header |->
            [my_lba |-> 1, alt_lba |-> layout.total_sectors - 1,
             part_ent_lba |-> 2, num_entries |-> gpt_idx,
             entries_crc32 |-> entries_crc],
         entries |-> gpt_entries,
         backup_header |->
            [my_lba |-> layout.total_sectors - 1, alt_lba |-> 1,
             part_ent_lba |-> layout.total_sectors - 33,
             num_entries |-> gpt_idx,
             entries_crc32 |-> entries_crc]]

GptInit ==
    /\ rt_layout \in {l \in SyntheticLayouts : l.has_gpt}
    /\ device = BlankDevice(rt_layout.total_sectors)
    /\ rt_scanned = NoLayout
    /\ rtpc = "start"
    /\ OldIdle /\ CancelIdle /\ GwIdle /\ EmuIdle /\ ProgIdle

\* write_partition_table of a layout with a GPT: the GPT sectors it leaves
\* on the device
GptWrite ==
    /\ rtpc = "start"
    /\ MbrPackable(rt_layout)
    /\ device' = [total_sectors |-> rt_layout.total_sectors,
                  main_header |-> gpt_data(rt_layout).main_header,
                  entries |-> gpt_data(rt_layout).entries,
                  backup_entries |-> gpt_data(rt_layout).entries,
                  backup_header |-> gpt_data(rt_layout).backup_header]
    /\ rtpc' = "gpt_written"
    /\ UNCHANGED <<rt_layout, rt_scanned>>
    /\ UNCHANGED notTableVars

GptNext == GptWrite

GptSpec == GptInit /\ [][GptNext]_vars

(***************************************************************************)
(* C29: in both the primary and the backup GPT header the writer emits,    *)
(* entries_crc32 is computed over the full entries region as it is written *)
(* to disk: all 128 slots, the zero slots beyond num_entries included, for *)
(* every number of in_gpt partitions.                                      *)
(***************************************************************************)
C29_CrcOverFullRegion ==
    rtpc = "gpt_written"
        => /\ Len(device.entries) = GPT_SLOTS * EntryLen
           /\ device.main_header.entries_crc32 = crc32(device.entries)
           /\ device.backup_header.entries_crc32
                  = crc32(device.backup_entries)

\* what the writer does: the CRC covers the num_entries used slots only
C29_CrcOverUsedSlots ==
    rtpc = "gpt_written"
        => /\ device.main_header.entries_crc32
                  = crc32(SubSeq(device.entries, 1,
                                 device.main_header.num_entries * EntryLen))
           /\ device.backup_header.entries_crc32
                  = device.main_header.entries_crc32
           /\ device.main_header.num_entries < GPT_SLOTS

(***************************************************************************)
(* The BPB fixup on the bytes of the FAT32 partition.  fat32format.exe     *)
(* leaves the boot sector at partition offset 0 and its copy at offset 6;  *)
(* the total it writes may be the partition size or a smaller one.  A      *)
(* sector is kept to its first 40 bytes, which hold every field that       *)
(* _verify_and_fix_fat32_bpb parses; the device value is the sectors 0..6  *)
(* of the partition and the write_sectors calls issued on them.            *)
(***************************************************************************)
BPB_LEN == 40

\* the boot sector of a file system of total sectors: 512 bytes per
\* sector at offset 11, 32 reserved sectors at 14, two FATs at 16,
\* total_sectors_32 at 32, fat_size_32 at 36
BootSector(total) ==
    [k \in 1..BPB_LEN |->
        CASE k = 12 -> 0
          [] k = 13 -> 2
          [] k = 15 -> 32
          [] k = 17 -> 2
          [] k \in 33..36 -> to_bytes(total)[k - 32]
          [] k \in 37..40 -> to_bytes(total \div 4096 + 1)[k - 36]
          [] OTHER -> 0]

\* sectors 1..5 are left as formatted
OtherSector(n) == [k \in 1..BPB_LEN |-> n]

Formatted(total) ==
    [sectors |-> [n \in 0..6 |-> IF n \in {0, 6} THEN BootSector(total)
                                 ELSE OtherSector(n)],
     writes |-> <<>>]

\* the totals the formatter may have written for a partition of size
FormatterTotals(size) == {size, size - 1, size - 2048, 0}

\* struct.unpack('<I', boot_sector_data[32:36])[0]
total_sectors_32(boot_sector_data) ==
    from_bytes(SubSeq(boot_sector_data, 33, 36))

\* boot_sector_updated[32:36] = struct.pack('<I', expected_total_sectors)
boot_sector_updated(boot_sector_data, expected_total_sectors) ==
    [k \in 1..BPB_LEN |->
        IF k \in 33..36 THEN to_bytes(expected_total_sectors)[k - 32]
        ELSE boot_sector_data[k]]

\* write_sectors at partition offset n
WriteSector(dev, n, data) ==
    [sectors |-> [dev.sectors EXCEPT ![n] = data],
     writes |-> Append(dev.writes, [offset |-> n, data |-> data])]

\* the variant that rewrites the boot sector and leaves the backup alone
_verify_and_fix_fat32_bpb_no_backup(dev, size_sectors, n_writes) ==
    IF total_sectors_32(dev.sectors[0]) # size_sectors /\ n_writes >= 1
    THEN WriteSector(dev, 0,
                     boot_sector_updated(dev.sectors[0], size_sectors))
    ELSE dev

\* _verify_and_fix_fat32_bpb: the partition after a call in which the
\* first n_writes calls of write_sectors succeed
_verify_and_fix_fat32_bpb(dev, size_sectors, n_writes) ==
    LET updated == boot_sector_updated(dev.sectors[0], size_sectors)
    IN  IF total_sectors_32(dev.sectors[0]) = size_sectors \/ n_writes = 0
        THEN dev
        ELSE IF n_writes = 1
             THEN WriteSector(dev, 0, updated)
             ELSE WriteSector(WriteSector(dev, 0, updated), 6, updated)

\* the FAT32 partition of the layout being written
Fat32Of(layout) ==
    layout.partitions[CHOOSE i \in DOMAIN layout.partitions :
                          layout.partitions[i].category = "FAT32"]

BpbInit ==
    /\ rt_layout \in SyntheticLayouts
    /\ \E total \in FormatterTotals(Fat32Of(rt_layout).size_sectors) :
          device = Formatted(total)
    /\ rt_scanned = NoLayout
    /\ rtpc = "formatted"
    /\ OldIdle /\ CancelIdle /\ GwIdle /\ EmuIdle /\ ProgIdle

\* a call of _verify_and_fix_fat32_bpb that returns without an exception
BpbApply ==
    /\ rtpc \in {"formatted", "applied_once"}
    /\ device' = _verify_and_fix_fat32_bpb(device,
                                           Fat32Of(rt_layout).size_sectors, 2)
    /\ rtpc' = IF rtpc = "formatted" THEN "applied_once"
               ELSE "applied_twice"
    /\ UNCHANGED <<rt_layout, rt_scanned>>
    /\ UNCHANGED notTableVars

\* a call in which the read or one of the two writes raises: the except
\* clause logs the error
BpbApplyError ==
    /\ rtpc \in {"formatted", "applied_once"}
    /\ \E n \in 0..1 :
          /\ n = 1 => total_sectors_32(device.sectors[0])
                          # Fat32Of(rt_layout).size_sectors
          /\ device' = _verify_and_fix_fat32_bpb(
                           device, Fat32Of(rt_layout).size_sectors, n)
    /\ rtpc' = "error_logged"
    /\ UNCHANGED <<rt_layout, rt_scanned>>
    /\ UNCHANGED notTableVars

BpbNext == BpbApply \/ BpbApplyError

BpbSpec == BpbInit /\ [][BpbNext]_vars

=============================================================================
